---------------------------- MODULE Spec2Model ----------------------------
(***************************************************************************)
(* A model of the QuickSet pan-tilt controller:                            *)
(*   src/src/quickset_pan_tilt/protocol.py   (framing codec, registry,     *)
(*                                            assemble/parse)              *)
(*   src/src/quickset_pan_tilt/controller.py (controller state machine,    *)
(*                                            serial receive step)         *)
(*                                                                         *)
(* Bytes are the naturals 0..255, byte strings are sequences of bytes.     *)
(* Python's None is the empty sequence, an optional value v is <<v>>.      *)
(* Angles are kept in tenths of a degree (the wire's fixed-point integer): *)
(* (v / 10) * 10 = v holds in floating point for every 16-bit v, so the    *)
(* conversion between degrees and tenths loses nothing.                    *)
(***************************************************************************)
EXTENDS Integers, Sequences, FiniteSets, TLC

(***************************************************************************)
(* Bounds of the model.                                                    *)
(***************************************************************************)
\* longest byte sequence given to the codec functions
MaxLen == 3
\* public operations called on one controller in one behaviour
MaxOps == 2
\* frames one operation may write before the model stops following it
MaxSends == 3

(***************************************************************************)
(* Control characters (protocol.py:15-16).                                 *)
(***************************************************************************)
STX == 2
ETX == 3
ACK == 6
NACK == 21
ESC == 27
\* a slip: NACK is left out
CONTROL_CHARS_NoNack == {STX, ETX, ACK, ESC}

CONTROL_CHARS == {STX, ETX, ACK, NACK, ESC}

\* protocol.py:20
_ANGLE_MULTIPLIER == 10

None == << >>
Some(v) == << v >>

(***************************************************************************)
(* Bit operations on bytes.                                                *)
(***************************************************************************)
RECURSIVE XorBits(_, _, _)
XorBits(a, b, n) ==
    IF n = 0 THEN 0
    ELSE (((a % 2) + (b % 2)) % 2) + 2 * XorBits(a \div 2, b \div 2, n - 1)

\* a ^ b on half bytes, tabulated
XorNibble == [a \in 0..15 |-> [b \in 0..15 |-> XorBits(a, b, 4)]]

\* a slip: the bytes are added
Xor_Adds(a, b) == (a + b) % 256

\* a ^ b on bytes
Xor(a, b) ==
    (16 * XorNibble[a \div 16][b \div 16]) + XorNibble[a % 16][b % 16]

\* bit n of byte b
Bit(b, n) == (b \div (2 ^ n)) % 2

\* byte | 0b1000_0000
SetBit7(b) == IF Bit(b, 7) = 1 THEN b ELSE b + 128

\* byte & 0b0111_1111
ClearBit7(b) == b % 128

(***************************************************************************)
(* Byte framing codec (static methods of QuicksetProtocol).                *)
(***************************************************************************)
\* a slip: byteorder='big'
int_to_bytes_BigEndian(integer) ==
    LET u == integer % 65536
    IN  << (u \div 256), (u % 256) >>

\* integer.to_bytes(length=2, byteorder='little', signed=True); the caller
\* checks int_to_bytes_raises first.
int_to_bytes(integer) ==
    LET u == integer % 65536
    IN  << (u % 256), (u \div 256) >>

\* to_bytes raises OverflowError outside the signed 16-bit range
int_to_bytes_raises(integer) == integer < -32768 \/ integer > 32767

\* struct.unpack('<h', ..) raises struct.error unless it is given 2 bytes
bytes_to_int_raises(two_bytes) == Len(two_bytes) # 2

\* struct.unpack('<h', two_bytes)[0]; two_bytes has length 2
bytes_to_int(two_bytes) ==
    LET u == two_bytes[1] + (256 * two_bytes[2])
    IN  IF u >= 32768 THEN u - 65536 ELSE u

RECURSIVE LrcFold(_, _, _)
LrcFold(byte_array, k, lrc) ==
    IF k > Len(byte_array) THEN lrc
    ELSE LrcFold(byte_array, k + 1, Xor(lrc, byte_array[k]))

\* a slip: the fold leaves out the first byte
compute_lrc_SkipsFirst(byte_array) == << LrcFold(byte_array, 2, 0) >>

\* the checksum as a one-byte string
compute_lrc(byte_array) == << LrcFold(byte_array, 1, 0) >>

\* a slip: the escaped byte is not changed
insert_escape_sequence_KeepsByte(byte) == << ESC, byte >>

insert_escape_sequence(byte) == << ESC, SetBit7(byte) >>

RECURSIVE EscapeFrom(_, _)
EscapeFrom(packet, k) ==
    IF k > Len(packet) THEN << >>
    ELSE (IF packet[k] \in CONTROL_CHARS
          THEN insert_escape_sequence(packet[k])
          ELSE << packet[k] >>) \o EscapeFrom(packet, k + 1)

\* a slip: nothing is escaped
escape_control_chars_Nothing(packet) == packet

escape_control_chars(packet) == EscapeFrom(packet, 1)

\* the loop of remove_escape_sequences from index k on, found_esc as in the code
RECURSIVE UnescapeFrom(_, _, _)
UnescapeFrom(packet, k, found_esc) ==
    IF k > Len(packet) THEN << >>
    ELSE IF packet[k] = ESC
         THEN UnescapeFrom(packet, k + 1, TRUE)
         ELSE << (IF found_esc THEN ClearBit7(packet[k]) ELSE packet[k]) >>
              \o UnescapeFrom(packet, k + 1, FALSE)

remove_escape_sequences(packet) == UnescapeFrom(packet, 1, FALSE)

(***************************************************************************)
(* Command registry (QuicksetProtocol.__init__) and the protocol variants. *)
(* A variant is "PTCR20" (identity byte, status routines implemented) or   *)
(* "PTHR90" (no identity byte, status routines left as stubs).             *)
(***************************************************************************)
Variants == {"PTCR20", "PTHR90"}

MoveCommands == {"home", "move_delta", "move_absolute"}

COMMAND_NAMES ==
    {"get_status", "move_absolute", "move_delta", "home", "fault_reset",
     "get_communication_timeout", "set_communication_timeout"}

\* a slip: fault_reset is registered under an opcode of its own
number_FaultResetOwnOpcode(cmd_name) ==
    CASE cmd_name = "get_status" -> 49
      [] cmd_name = "move_absolute" -> 51
      [] cmd_name = "move_delta" -> 52
      [] cmd_name = "home" -> 53
      [] cmd_name = "fault_reset" -> 50
      [] cmd_name = "get_communication_timeout" -> 150
      [] cmd_name = "set_communication_timeout" -> 150

\* self._COMMANDS[cmd_name]['number']
number(cmd_name) ==
    CASE cmd_name = "get_status" -> 49
      [] cmd_name = "move_absolute" -> 51
      [] cmd_name = "move_delta" -> 52
      [] cmd_name = "home" -> 53
      [] cmd_name = "fault_reset" -> 49
      [] cmd_name = "get_communication_timeout" -> 150
      [] cmd_name = "set_communication_timeout" -> 150

\* the outcome of a call: a raised exception (err, with the fault it reports in
\* why) or a returned value (err = "", val = None or <<value>>)
Raise(e, w) == [err |-> e, why |-> w, val |-> None]
Return(v) == [err |-> "", why |-> "", val |-> Some(v)]
ReturnNone == [err |-> "", why |-> "", val |-> None]

\* PTCR20: bytearray((cmd.base, pan_jog, tilt_jog, zoom_jog, focus_jog)) with
\* every field zero; PTHR90: pass
_assemble_get_status(variant) ==
    IF variant = "PTCR20" THEN << 0, 0, 0, 0, 0 >> ELSE None

\* a slip: RES is not set
_assemble_fault_reset_NoReset == << 0, 0, 0, 0, 0 >>

\* GetStatusCmd with RES (bit 0) set, jog bytes zero
_assemble_fault_reset == << 1, 0, 0, 0, 0 >>

_assemble_get_communication_timeout == << 128 >>

\* None (after a warning) outside 0..120
_assemble_set_communication_timeout(timeout) ==
    IF timeout > 120 \/ timeout < 0 THEN None ELSE << timeout >>

\* pan, tilt: None or <<tenths>>; None stands still at 999.9 degrees
_assemble_move_to_entered(pan, tilt) ==
    LET p == IF pan = None THEN 9999 ELSE pan[1]
        t == IF tilt = None THEN 9999 ELSE tilt[1]
    IN  int_to_bytes(p) \o int_to_bytes(t)

\* a slip: the sentinel of move_to_entered is used
_assemble_move_to_delta_Sentinel9999(pan, tilt) ==
    LET p == IF pan = None THEN 9999 ELSE pan[1]
        t == IF tilt = None THEN 9999 ELSE tilt[1]
    IN  int_to_bytes(p) \o int_to_bytes(t)

\* pan, tilt: None or <<tenths>>; None stands still at a delta of 0
_assemble_move_to_delta(pan, tilt) ==
    LET p == IF pan = None THEN 0 ELSE pan[1]
        t == IF tilt = None THEN 0 ELSE tilt[1]
    IN  int_to_bytes(p) \o int_to_bytes(t)

\* self._COMMANDS[cmd_name]['assemble'](*data)
AssembleData(variant, cmd_name, data) ==
    CASE cmd_name = "get_status" -> _assemble_get_status(variant)
      [] cmd_name = "move_absolute" -> _assemble_move_to_entered(data[1], data[2])
      [] cmd_name = "move_delta" -> _assemble_move_to_delta(data[1], data[2])
      [] cmd_name = "home" -> None
      [] cmd_name = "fault_reset" -> _assemble_fault_reset
      [] cmd_name = "get_communication_timeout" ->
            _assemble_get_communication_timeout
      [] cmd_name = "set_communication_timeout" ->
            _assemble_set_communication_timeout(data[1])

\* a slip: the registry is indexed before the name is checked
assemble_raises_KeyError(cmd_name, data) ==
    IF cmd_name \notin COMMAND_NAMES THEN "KeyError"
    ELSE IF /\ cmd_name \in {"move_absolute", "move_delta"}
            /\ \E k \in 1..2 : data[k] # None /\ int_to_bytes_raises(data[k][1])
         THEN "OverflowError"
         ELSE ""

\* the exception assemble_packet raises for these arguments, "" when none
assemble_raises(cmd_name, data) ==
    IF cmd_name \notin COMMAND_NAMES THEN "NotImplementedError"
    ELSE IF /\ cmd_name \in {"move_absolute", "move_delta"}
            /\ \E k \in 1..2 : data[k] # None /\ int_to_bytes_raises(data[k][1])
         THEN "OverflowError"
         ELSE ""

_assemble_cmd_data_lrc(variant, cmd_name, data) ==
    LET cmd_bytes == << number(cmd_name) >>
        data_bytes == AssembleData(variant, cmd_name, data)
        packet == IF data_bytes # None THEN cmd_bytes \o data_bytes
                                       ELSE cmd_bytes
        lrc == compute_lrc(packet)
    IN  packet \o lrc

\* PTCR20: packet.insert(0, self.identity); base class: pass
_add_identity_byte(variant, identity, packet) ==
    IF variant = "PTCR20" THEN << identity >> \o packet ELSE packet

\* a slip: the identity byte is added before the checksum is computed
assemble_packet_IdentityInChecksum(variant, identity, cmd_name, data) ==
    LET cmd_bytes == << number(cmd_name) >>
        data_bytes == AssembleData(variant, cmd_name, data)
        packet == _add_identity_byte(variant, identity, cmd_bytes \o data_bytes)
        escaped == escape_control_chars(packet \o compute_lrc(packet))
    IN  << STX >> \o escaped \o << ETX >>

\* the frame as STX | identity | escape(opcode | data | lrc) | ETX: the
\* identity byte is added after escaping
assemble_packet_IdentityNotEscaped(variant, identity, cmd_name, data) ==
    LET packet == _assemble_cmd_data_lrc(variant, cmd_name, data)
        escaped == escape_control_chars(packet)
        with_id == _add_identity_byte(variant, identity, escaped)
    IN  << STX >> \o with_id \o << ETX >>

assemble_packet(variant, identity, cmd_name, data) ==
    LET packet == _assemble_cmd_data_lrc(variant, cmd_name, data)
        with_id == _add_identity_byte(variant, identity, packet)
        escaped == escape_control_chars(with_id)
    IN  << STX >> \o escaped \o << ETX >>

(***************************************************************************)
(* Parsing.                                                                *)
(***************************************************************************)
\* a slip: zoom and focus are taken from each other's byte
_parse_get_status_ZoomFocusSwapped(variant, packet) ==
    IF variant # "PTCR20" THEN Raise("TypeError", "arguments")
    ELSE IF Len(packet) < 4 THEN Raise("struct.error", "length")
    ELSE IF Len(packet) < 10 THEN Raise("IndexError", "length")
    ELSE Return([pan |-> bytes_to_int(SubSeq(packet, 1, 2)),
                 tilt |-> bytes_to_int(SubSeq(packet, 3, 4)),
                 pan_status |-> packet[5],
                 tilt_status |-> packet[6],
                 gen_status |-> packet[7],
                 zoom |-> packet[9],
                 focus |-> packet[8],
                 n_cameras |-> packet[10],
                 camera_data |-> IF Len(packet) > 10
                                 THEN SubSeq(packet, 11, Len(packet))
                                 ELSE None])

\* PTCR20._parse_get_status; pan and tilt in tenths of a degree.  PTHR90's
\* routine takes no packet argument, so calling it raises TypeError.
_parse_get_status(variant, packet) ==
    IF variant # "PTCR20" THEN Raise("TypeError", "arguments")
    ELSE IF Len(packet) < 4 THEN Raise("struct.error", "length")
    ELSE IF Len(packet) < 10 THEN Raise("IndexError", "length")
    ELSE Return([pan |-> bytes_to_int(SubSeq(packet, 1, 2)),
                 tilt |-> bytes_to_int(SubSeq(packet, 3, 4)),
                 pan_status |-> packet[5],
                 tilt_status |-> packet[6],
                 gen_status |-> packet[7],
                 zoom |-> packet[8],
                 focus |-> packet[9],
                 n_cameras |-> packet[10],
                 camera_data |-> IF Len(packet) > 10
                                 THEN SubSeq(packet, 11, Len(packet))
                                 ELSE None])

\* a slip: bit 7 is not masked off
_parse_communication_timeout_NoMask(packet) ==
    IF Len(packet) > 1 THEN Raise("RuntimeError", "length")
    ELSE IF Len(packet) = 0 THEN Raise("IndexError", "length")
    ELSE Return(packet[1])

_parse_communication_timeout(packet) ==
    IF Len(packet) > 1 THEN Raise("RuntimeError", "length")
    ELSE IF Len(packet) = 0 THEN Raise("IndexError", "length")
    ELSE Return(ClearBit7(packet[1]))

\* _parse_move_to_entered(self), _parse_move_to_delta(self) and home's
\* lambda: None take no packet argument: the call parse(local_packet) raises
\* TypeError
_parse_move(packet) == Raise("TypeError", "arguments")

\* self._COMMANDS[cmd_name]['parse'](local_packet)
ParseData(variant, cmd_name, packet) ==
    CASE cmd_name \in {"get_status", "fault_reset"} ->
            _parse_get_status(variant, packet)
      [] cmd_name \in MoveCommands -> _parse_move(packet)
      [] cmd_name \in {"get_communication_timeout",
                       "set_communication_timeout"} ->
            _parse_communication_timeout(packet)

\* a slip: the identity byte is left in the packet
_remove_identity_byte_Keeps(variant, packet) == packet

\* a slip: the first byte is removed only when it is the default identity
_remove_identity_byte_OnlyDefault(variant, packet) ==
    IF variant = "PTCR20" /\ packet # << >> /\ packet[1] = 0
    THEN Tail(packet) ELSE packet

\* PTCR20: del packet[0]; base class: pass
_remove_identity_byte(variant, packet) ==
    IF variant = "PTCR20" THEN Tail(packet) ELSE packet

\* a slip: only the first byte is looked at
packet_valid_AckOnly(packet) == packet[1] = ACK

\* ack_received and etx_received
packet_valid(packet) ==
    LET ack_received == packet[1] = ACK
        etx_received == packet[Len(packet)] = ETX
    IN  ack_received /\ etx_received

\* packet: None or a non-empty byte string
parse_packet(variant, cmd_name, packet) ==
    IF packet = None THEN Raise("TypeError", "no response")
    ELSE IF ~packet_valid(packet)
    THEN Raise("RuntimeError", "framing")
    ELSE
    LET stripped == SubSeq(packet, 2, Len(packet) - 1)
        unescaped == remove_escape_sequences(stripped)
    IN  IF variant = "PTCR20" /\ unescaped = << >>
        THEN Raise("IndexError", "length")
        ELSE
        LET local_packet == _remove_identity_byte(variant, unescaped)
        IN  IF compute_lrc(local_packet)[1] # 0
            THEN Raise("RuntimeError", "checksum")
            ELSE IF Len(local_packet) < 2
            THEN Raise("IndexError", "length")
            ELSE IF number(cmd_name) # local_packet[1]
            THEN Raise("RuntimeError", "command")
            ELSE ParseData(variant, cmd_name,
                           SubSeq(local_packet, 2, Len(local_packet) - 1))

(***************************************************************************)
(* State.                                                                  *)
(***************************************************************************)
VARIABLES
    \* QuicksetController: the coordinate fields, None or <<tenths>>
    pan, tilt, pan_destination, tilt_destination,
    \* the public operation in progress or last finished: [name, args]
    op,
    \* where the controller is: "idle" (constructed, nothing called yet),
    \* "ack_wait" (in the for loop of _receive), "body" (in the while loop
    \* of _receive), "done" (the operation has returned or raised)
    pc,
    \* whose _receive is running: "command" (the operation's own frame) or
    \* "poll" (get_status called by the completion poll of a move)
    stage,
    \* the frame the operation assembled (kept by a move for resending)
    packet,
    \* locals of _receive: the accumulated bytes and the ack-wait loop index
    rx, i,
    \* the outcome of the last finished operation: Raise(..) or Return(..)
    result,
    \* observers of the operation in progress: the frames it wrote, its
    \* _receive calls that returned None and those that returned a frame,
    \* its parse_packet calls, the statuses get_status returned to its
    \* completion poll, its warnings
    written, noresp, received, parses, polled, warned,
    \* public operations called so far
    nops,
    \* transport: frames written since construction; frames the device has
    \* received and not answered, [tag, frame] with tag the frame's index;
    \* the serial input buffer, bytes [byte, tag] tagged with the frame they
    \* answer
    nwritten, pending, rxbuf,
    \* the tag of the ACK byte that starts rx, and for the frame last handed
    \* to parse_packet <<its tag, the index of the latest frame written>>
    rxsrc, parsed,
    \* the device's script: the statuses it reports to status requests, in
    \* order (the last one is repeated), and the part of it still to come
    script, plan,
    \* codec specification: the input drawn, the function last applied to
    \* it, and that function's output
    cin, cfn, cout

codec_vars == << cin, cfn, cout >>

ctl_vars ==
    << pan, tilt, pan_destination, tilt_destination, op, pc, stage, packet,
       rx, i, result, written, noresp, received, parses, polled, warned, nops,
       nwritten, pending, rxbuf, rxsrc, parsed, script, plan >>

vars == << ctl_vars, codec_vars >>

(***************************************************************************)
(* The controller (QuicksetController, ControllerSerial) with a PTCR20     *)
(* protocol object.                                                        *)
(***************************************************************************)
\* PTCR20.__init__(identity=0)
Identity == 0

\* _receive: ACK_WAIT_TIME
ACK_WAIT_TIME == 10

TheVariant == "PTCR20"

\* GenStatus fields, from the least significant bit: DES is bit 5, EXEC bit 6
DES(gen_status) == Bit(gen_status, 5) = 1
EXEC(gen_status) == Bit(gen_status, 6) = 1

\* PanStatus and TiltStatus fields, from the least significant bit: the
\* resolver fault, OL, DE, TO, two hard-limit flags, two soft-limit flags
OL(axis_status) == Bit(axis_status, 1) = 1
DE(axis_status) == Bit(axis_status, 2) = 1
TO(axis_status) == Bit(axis_status, 3) = 1

status_has_hard_faults(pan_status, tilt_status) ==
    LET pan_hard_faults_exist == TO(pan_status) \/ DE(pan_status) \/ OL(pan_status)
        tilt_hard_faults_exist == TO(tilt_status) \/ DE(tilt_status) \/ OL(tilt_status)
    IN  pan_hard_faults_exist \/ tilt_hard_faults_exist

\* check_for_faults: its first statement calls
\* self._protocol.check_for_hard_faults, a method no protocol class defines
\* (protocol.py has status_has_hard_faults only), so the attribute lookup
\* raises before any fault is classified; a return would be
\* Return(<< hard_faults, soft_faults >>).
check_for_faults(status) == Raise("AttributeError", "check_for_hard_faults")

\* the controller's and the transport's state as one record
Ctl ==
    [pan |-> pan, tilt |-> tilt, pan_destination |-> pan_destination,
     tilt_destination |-> tilt_destination, op |-> op, pc |-> pc,
     stage |-> stage, packet |-> packet, rx |-> rx, i |-> i,
     result |-> result, written |-> written, noresp |-> noresp,
     received |-> received, parses |-> parses, polled |-> polled, warned |-> warned,
     nwritten |-> nwritten, pending |-> pending, rxsrc |-> rxsrc,
     parsed |-> parsed]

SetCtl(n) ==
    /\ pan' = n.pan
    /\ tilt' = n.tilt
    /\ pan_destination' = n.pan_destination
    /\ tilt_destination' = n.tilt_destination
    /\ op' = n.op
    /\ pc' = n.pc
    /\ stage' = n.stage
    /\ packet' = n.packet
    /\ rx' = n.rx
    /\ i' = n.i
    /\ result' = n.result
    /\ written' = n.written
    /\ noresp' = n.noresp
    /\ received' = n.received
    /\ parses' = n.parses
    /\ polled' = n.polled
    /\ warned' = n.warned
    /\ nwritten' = n.nwritten
    /\ pending' = n.pending
    /\ rxsrc' = n.rxsrc
    /\ parsed' = n.parsed

\* ControllerSerial._send: self._serial.write(packet); the device receives it
_send(c, pkt) ==
    [c EXCEPT !.written = Append(@, pkt),
              !.nwritten = @ + 1,
              !.pending = Append(@, [tag |-> c.nwritten + 1, frame |-> pkt])]

\* the first lines of _receive, up to the first read
StartReceive(c) ==
    [c EXCEPT !.rx = None, !.i = 0, !.rxsrc = 0, !.pc = "ack_wait"]

\* a slip: the DES flag is not looked at
_set_pan_tilt_coordinate_properties_IgnoresDES(c, status) ==
    [c EXCEPT !.pan = Some(status.pan), !.tilt = Some(status.tilt)]

_set_pan_tilt_coordinate_properties(c, status) ==
    IF DES(status.gen_status)
    THEN [c EXCEPT !.pan_destination = Some(status.pan),
                   !.tilt_destination = Some(status.tilt)]
    ELSE [c EXCEPT !.pan = Some(status.pan),
                   !.tilt = Some(status.tilt)]

\* the operation returns or raises
Finish(c, outcome) == [c EXCEPT !.pc = "done", !.result = outcome]

\* parse_packet called with what _receive returned
Parse(c, cmd_name, r) ==
    [c |-> [c EXCEPT !.parses = @ + 1,
                     !.parsed = << (IF r = None THEN 0 ELSE c.rxsrc),
                                   c.nwritten >>],
     out |-> parse_packet(TheVariant, cmd_name, r)]

\* get_status up to its first read: assemble, _send, enter _receive
GetStatusCall(c) ==
    StartReceive(_send(c, assemble_packet(TheVariant, Identity,
                                          "get_status", << >>)))

\* a slip: a response that does not parse clears the current position
GetStatusReturn_ClearsOnError(c, r) ==
    LET p == Parse(c, "get_status", r)
    IN  IF p.out.err # ""
        THEN [c |-> [p.c EXCEPT !.pan = None, !.tilt = None], out |-> p.out]
        ELSE [c |-> _set_pan_tilt_coordinate_properties(p.c, p.out.val[1]),
              out |-> p.out]

\* get_status after its _receive returned r: the state it leaves and what it
\* returns or raises
GetStatusReturn(c, r) ==
    LET p == Parse(c, "get_status", r)
    IN  IF p.out.err # "" THEN p
        ELSE [c |-> _set_pan_tilt_coordinate_properties(p.c, p.out.val[1]),
              out |-> p.out]

\* one iteration of the completion poll of _execute_move_command, from the
\* return of get_status's _receive to the next read or the end of the move
PollIteration(c, r) ==
    LET g == GetStatusReturn(c, r)
    IN  IF g.out.err # "" THEN Finish(g.c, g.out)
        ELSE
        LET status == g.out.val[1]
            c1 == [g.c EXCEPT !.polled = Append(@, status)]
            f == check_for_faults(status)
        IN  IF f.err # "" THEN Finish(c1, f)
            ELSE
            LET hard_faults == f.val[1][1]
                soft_faults == f.val[1][2]
                c2 == [c1 EXCEPT !.warned = @ + Len(hard_faults)
                                                + Len(soft_faults)]
            IN  IF hard_faults # << >> \/ soft_faults # << >>
                THEN Finish(c2, Return(FALSE))
                ELSE IF ~EXEC(status.gen_status)
                THEN Finish(c2, Return(TRUE))
                ELSE GetStatusCall(c2)

\* a slip: a move without the retry loop, its None handed to parse_packet
\* as get_status does
MoveAfterReceive_NoRetry(c, r) ==
    LET p == Parse(c, c.op.name, r)
    IN  IF p.out.err # "" THEN Finish(p.c, p.out)
        ELSE GetStatusCall(
                [_set_pan_tilt_coordinate_properties(p.c, p.out.val[1])
                    EXCEPT !.stage = "poll"])

\* _execute_move_command after the _receive of the move's own frame
\* returned r
MoveAfterReceive(c, r) ==
    IF r = None
    THEN StartReceive(_send(c, c.packet))
    ELSE
    LET p == Parse(c, c.op.name, r)
    IN  IF p.out.err # "" THEN Finish(p.c, p.out)
        ELSE GetStatusCall(
                [_set_pan_tilt_coordinate_properties(p.c, p.out.val[1])
                    EXCEPT !.stage = "poll"])

\* a slip: fault_reset records the position of its status response
FaultResetAfterReceive_WritesFields(c, r) ==
    LET g == GetStatusReturn(c, r) IN Finish(g.c, g.out)

\* fault_reset after its _receive returned r
FaultResetAfterReceive(c, r) ==
    LET p == Parse(c, "fault_reset", r)
    IN  IF p.out.err # "" THEN Finish(p.c, p.out)
        ELSE
        LET status == p.out.val[1]
            f == check_for_faults(status)
        IN  IF f.err # "" THEN Finish(p.c, f)
            ELSE
            LET hard_faults == f.val[1][1]
                soft_faults == f.val[1][2]
                c1 == [p.c EXCEPT !.warned = @ + Len(hard_faults)
                                                 + Len(soft_faults)]
            IN  IF hard_faults # << >>
                THEN Finish([c1 EXCEPT !.warned = @ + 1], Return(FALSE))
                ELSE Finish(c1, Return(TRUE))

\* the communication_timeout getter after its _receive returned r
GetTimeoutAfterReceive(c, r) ==
    LET p == Parse(c, "get_communication_timeout", r)
    IN  Finish(p.c, p.out)

\* the setter as a read-back by get: the response to the set frame is
\* dropped and a get_communication_timeout request is written
SetTimeoutAfterReceive_IssuesGet(c, r) ==
    StartReceive(_send(c, assemble_packet(TheVariant, Identity,
                                          "get_communication_timeout",
                                          << >>)))

\* a slip: the comparison is left out
SetTimeoutAfterReceive_NoWarning(c, r) ==
    LET p == Parse(c, "set_communication_timeout", r)
    IN  IF p.out.err # "" THEN Finish(p.c, p.out)
        ELSE Finish(p.c, ReturnNone)

\* the communication_timeout setter after its _receive returned r
SetTimeoutAfterReceive(c, r) ==
    LET p == Parse(c, "set_communication_timeout", r)
    IN  IF p.out.err # "" THEN Finish(p.c, p.out)
        ELSE IF c.op.args[1] # p.out.val[1]
        THEN Finish([p.c EXCEPT !.warned = @ + 1], ReturnNone)
        ELSE Finish(p.c, ReturnNone)

\* one iteration of the while loop of _wait_for_initialization, from the
\* return of get_status's _receive: TypeError is caught and get_status is
\* called again, any other exception leaves the loop and the constructor,
\* a returned status ends the loop
WaitForInitializationIteration(c, r) ==
    LET g == GetStatusReturn(c, r)
    IN  IF g.out.err = "TypeError" THEN GetStatusCall(g.c)
        ELSE IF g.out.err # "" THEN Finish(g.c, g.out)
        ELSE Finish(g.c, ReturnNone)

\* the caller's code from the return of _receive (r: None or the frame) to
\* the next transport read or to the end of the operation
AfterReceive(c0, r) ==
    LET c == IF r = None THEN [c0 EXCEPT !.noresp = @ + 1]
                         ELSE [c0 EXCEPT !.received = @ + 1]
    IN
    CASE c.stage = "poll" -> PollIteration(c, r)
      [] c.stage = "command" /\ c.op.name \in MoveCommands ->
            MoveAfterReceive(c, r)
      [] c.stage = "command" /\ c.op.name = "get_status" ->
            LET g == GetStatusReturn(c, r) IN Finish(g.c, g.out)
      [] c.stage = "command" /\ c.op.name = "fault_reset" ->
            FaultResetAfterReceive(c, r)
      [] c.stage = "command" /\ c.op.name = "get_communication_timeout" ->
            GetTimeoutAfterReceive(c, r)
      [] c.stage = "command" /\ c.op.name = "set_communication_timeout" ->
            SetTimeoutAfterReceive(c, r)
      [] c.stage = "command" /\ c.op.name = "_wait_for_initialization" ->
            WaitForInitializationIteration(c, r)

\* the public operations and the arguments they are called with
CallSample ==
    {[name |-> "home", args |-> << >>],
     [name |-> "move_delta", args |-> << Some(100), None >>],
     [name |-> "move_absolute", args |-> << Some(225), Some(-50) >>],
     [name |-> "get_status", args |-> << >>],
     [name |-> "fault_reset", args |-> << >>],
     [name |-> "get_communication_timeout", args |-> << >>],
     [name |-> "set_communication_timeout", args |-> << 30 >>],
     [name |-> "set_communication_timeout", args |-> << 121 >>]}

\* the warnings assemble_packet issues: one for a timeout outside 0..120
AssembleWarnings(call) ==
    IF /\ call.name = "set_communication_timeout"
       /\ (call.args[1] > 120 \/ call.args[1] < 0)
    THEN 1 ELSE 0

\* a public operation from its call to its first transport read (or to the
\* exception assemble_packet raises)
CallOperation(c, call) ==
    LET c0 == [c EXCEPT !.op = call, !.stage = "command", !.packet = None,
                        !.result = ReturnNone, !.written = << >>,
                        !.noresp = 0, !.received = 0, !.parses = 0, !.polled = << >>,
                        !.warned = AssembleWarnings(call)]
        raised == assemble_raises(call.name, call.args)
    IN  IF raised # "" THEN Finish(c0, Raise(raised, "assemble"))
        ELSE LET pkt == assemble_packet(TheVariant, Identity,
                                        call.name, call.args)
             IN  StartReceive(_send([c0 EXCEPT !.packet = pkt], pkt))

(***************************************************************************)
(* The device: a scripted mount on the other end of the serial line.  It   *)
(* answers the frames it received in order, each with a well-formed        *)
(* inbound frame ACK | identity | escape(opcode | data | lrc) | ETX, at    *)
(* any time after the frame was written.                                   *)
(***************************************************************************)
StatusOf(pan_t, tilt_t, ps, ts, gs) ==
    [pan |-> pan_t, tilt |-> tilt_t, pan_status |-> ps, tilt_status |-> ts,
     gen_status |-> gs]

\* EXEC set, no fault
Moving == StatusOf(135, -50, 0, 0, 64)
\* EXEC clear, no fault; the coordinate bytes collide with STX and ETX
Arrived == StatusOf(2, 3, 0, 0, 0)
\* pan timeout (TO), EXEC cleared by the fault
HardFault == StatusOf(27, -50, 8, 0, 0)
\* tilt hard limit reached while EXEC is still set
SoftFault == StatusOf(135, 6, 0, 16, 64)
\* destination echo: DES and EXEC set
DestEcho == StatusOf(3600, -900, 0, 0, 96)

PlanSample ==
    {<< Moving, Moving, Arrived >>,
     << HardFault >>,
     << Moving, SoftFault >>,
     << DestEcho, Arrived >>}

StatusData(st) ==
    int_to_bytes(st.pan) \o int_to_bytes(st.tilt)
    \o << st.pan_status, st.tilt_status, st.gen_status, 0, 0, 0 >>

\* the opcode of a frame the controller wrote: STX | identity | opcode | ...
DeviceOpcode(frame) ==
    remove_escape_sequences(SubSeq(frame, 2, Len(frame) - 1))[2]

DeviceFrame(opcode, data) ==
    << ACK >>
    \o escape_control_chars(<< Identity >> \o << opcode >> \o data
                            \o compute_lrc(<< opcode >> \o data))
    \o << ETX >>

TimeoutReplySample == {30, 120}

\* the data the device may answer a frame with
ReplyData(frame) ==
    LET opcode == DeviceOpcode(frame)
    IN  CASE opcode = 49 -> {StatusData(plan[1])}
          [] opcode \in {51, 52, 53} -> {StatusData(DestEcho)}
          [] opcode = 150 -> {<< t >> : t \in TimeoutReplySample}

Tagged(frame, tag) == [k \in 1..Len(frame) |-> [byte |-> frame[k], tag |-> tag]]

CtlInit ==
    /\ pan = None
    /\ tilt = None
    /\ pan_destination = None
    /\ tilt_destination = None
    /\ op = [name |-> "none", args |-> << >>]
    /\ pc = "idle"
    /\ stage = "command"
    /\ packet = None
    /\ rx = None
    /\ i = 0
    /\ result = ReturnNone
    /\ written = << >>
    /\ noresp = 0
    /\ received = 0
    /\ parses = 0
    /\ polled = << >>
    /\ warned = 0
    /\ nops = 0
    /\ nwritten = 0
    /\ pending = << >>
    /\ rxbuf = << >>
    /\ rxsrc = 0
    /\ parsed = << 0, 0 >>

\* a public operation is called
Call ==
    /\ pc \in {"idle", "done"}
    /\ nops < MaxOps
    /\ \E call \in CallSample :
          \E n \in {CallOperation(Ctl, call)} : SetCtl(n)
    /\ nops' = nops + 1
    /\ UNCHANGED << rxbuf, script, plan, codec_vars >>

\* a slip: every byte read during the acknowledgment wait is kept
ReceiveAck_KeepsJunk ==
    /\ pc = "ack_wait"
    /\ \E n \in {IF rxbuf = << >>
                  THEN AfterReceive(Ctl, None)
                  ELSE IF Head(rxbuf).byte = ACK
                  THEN [Ctl EXCEPT !.rx = Append(@, ACK),
                                   !.rxsrc = Head(rxbuf).tag,
                                   !.pc = "body"]
                  ELSE IF i = ACK_WAIT_TIME - 1
                  THEN AfterReceive(Ctl, None)
                  ELSE [Ctl EXCEPT !.i = @ + 1,
                                   !.rx = Append(@, Head(rxbuf).byte)]} :
          /\ Len(n.written) <= MaxSends
          /\ SetCtl(n)
    /\ rxbuf' = IF rxbuf = << >> THEN rxbuf ELSE Tail(rxbuf)
    /\ UNCHANGED << nops, script, plan, codec_vars >>

\* one iteration of the for loop of _receive (the acknowledgment wait)
ReceiveAck ==
    /\ pc = "ack_wait"
    /\ \E n \in {IF rxbuf = << >>
                  THEN \* read timed out: return None
                       AfterReceive(Ctl, None)
                  ELSE IF Head(rxbuf).byte = ACK
                  THEN [Ctl EXCEPT !.rx = << ACK >>,
                                   !.rxsrc = Head(rxbuf).tag,
                                   !.pc = "body"]
                  ELSE IF i = ACK_WAIT_TIME - 1
                  THEN \* no ACK within the window: return None
                       AfterReceive(Ctl, None)
                  ELSE [Ctl EXCEPT !.i = @ + 1]} :
          /\ Len(n.written) <= MaxSends
          /\ SetCtl(n)
    /\ rxbuf' = IF rxbuf = << >> THEN rxbuf ELSE Tail(rxbuf)
    /\ UNCHANGED << nops, script, plan, codec_vars >>

\* a slip: the loop ends at ETX without keeping it
ReceiveBody_DropsEtx ==
    /\ pc = "body"
    /\ IF rxbuf = << >>
       THEN UNCHANGED ctl_vars
       ELSE /\ \E n \in {LET got == Append(rx, Head(rxbuf).byte)
                          IN  IF Head(rxbuf).byte = ETX
                              THEN AfterReceive(Ctl, rx)
                              ELSE [Ctl EXCEPT !.rx = got]} :
                  /\ Len(n.written) <= MaxSends
                  /\ SetCtl(n)
            /\ rxbuf' = Tail(rxbuf)
            /\ UNCHANGED << nops, script, plan >>
    /\ UNCHANGED codec_vars

\* one iteration of the while loop of _receive (reading up to ETX); a read
\* that times out extends rx by nothing and the loop goes on
ReceiveBody ==
    /\ pc = "body"
    /\ IF rxbuf = << >>
       THEN UNCHANGED ctl_vars
       ELSE /\ \E n \in {LET got == Append(rx, Head(rxbuf).byte)
                          IN  IF Head(rxbuf).byte = ETX
                              THEN AfterReceive([Ctl EXCEPT !.rx = got], got)
                              ELSE [Ctl EXCEPT !.rx = got]} :
                  /\ Len(n.written) <= MaxSends
                  /\ SetCtl(n)
            /\ rxbuf' = Tail(rxbuf)
            /\ UNCHANGED << nops, script, plan >>
    /\ UNCHANGED codec_vars

\* the device answers the oldest frame it has not answered yet
DeviceRespond ==
    /\ pending # << >>
    /\ \E data \in ReplyData(Head(pending).frame) :
          rxbuf' = rxbuf \o Tagged(DeviceFrame(DeviceOpcode(Head(pending).frame),
                                               data),
                                   Head(pending).tag)
    /\ pending' = Tail(pending)
    /\ plan' = IF DeviceOpcode(Head(pending).frame) = 49 /\ Len(plan) > 1
               THEN Tail(plan) ELSE plan
    /\ UNCHANGED << pan, tilt, pan_destination, tilt_destination, op, pc,
                    stage, packet, rx, i, result, written, noresp, received,
                    parses, polled, warned, nops, nwritten, rxsrc, parsed, script,
                    codec_vars >>

Init ==
    /\ CtlInit
    /\ script \in PlanSample
    /\ plan = script
    /\ cin = [kind |-> "none", p |-> << >>,
              cmd |-> [variant |-> "PTCR20", identity |-> 0, name |-> "",
                       data |-> << >>]]
    /\ cfn = "off"
    /\ cout = << >>

Next ==
    \/ Call
    \/ ReceiveAck
    \/ ReceiveBody
    \/ DeviceRespond

Spec == Init /\ [][Next]_vars

(***************************************************************************)
(* The startup specification: ControllerSerial.__init__ with a mount that  *)
(* is booting.  The mount may stay silent, answer a status request with a  *)
(* well-formed status response, or answer it with a garbled one.           *)
(***************************************************************************)
\* what a booting mount may put on the line in answer to a status request:
\* a well-formed response, one whose checksum byte has a bit inverted, or
\* the well-formed response to another command (move_absolute)
BootReplyKinds == {"valid", "checksum", "command"}

BootReply(kind, st) ==
    CASE kind = "valid" -> DeviceFrame(49, StatusData(st))
      [] kind = "checksum" ->
            << ACK >>
            \o escape_control_chars(
                  << Identity, 49 >> \o StatusData(st)
                  \o << Xor(compute_lrc(<< 49 >> \o StatusData(st))[1], 1) >>)
            \o << ETX >>
      [] kind = "command" -> DeviceFrame(51, StatusData(st))

StartupInit ==
    /\ CtlInit
    /\ script \in PlanSample
    /\ plan = script
    /\ cin = [kind |-> "none", p |-> << >>,
              cmd |-> [variant |-> "PTCR20", identity |-> 0, name |-> "",
                       data |-> << >>]]
    /\ cfn = "off"
    /\ cout = << >>

\* ControllerSerial.__init__ up to the first transport read: the fields
\* are set, the port is opened and _wait_for_initialization calls
\* get_status
Construct ==
    /\ pc = "idle"
    /\ nops = 0
    /\ \E n \in {GetStatusCall(
                     [Ctl EXCEPT !.op = [name |-> "_wait_for_initialization",
                                         args |-> << >>]])} : SetCtl(n)
    /\ nops' = nops + 1
    /\ UNCHANGED << rxbuf, script, plan, codec_vars >>

\* the booting mount answers the oldest status request it has not answered
BootRespond ==
    /\ pending # << >>
    /\ \E kind \in BootReplyKinds :
          rxbuf' = rxbuf \o Tagged(BootReply(kind, plan[1]),
                                   Head(pending).tag)
    /\ pending' = Tail(pending)
    /\ plan' = IF Len(plan) > 1 THEN Tail(plan) ELSE plan
    /\ UNCHANGED << pan, tilt, pan_destination, tilt_destination, op, pc,
                    stage, packet, rx, i, result, written, noresp, received,
                    parses, polled, warned, nops, nwritten, rxsrc, parsed,
                    script, codec_vars >>

StartupNext ==
    \/ Construct
    \/ ReceiveAck
    \/ ReceiveBody
    \/ BootRespond

SpecStartup == StartupInit /\ [][StartupNext]_vars

(***************************************************************************)
(* The codec specification: the pure functions of protocol.py applied to   *)
(* inputs drawn from bounded sets.                                         *)
(***************************************************************************)
\* every control character, bytes with bit 7 set (among them the escaped
\* forms 0x82 and 0x9B), and ordinary bytes
ByteSample == {0, 2, 3, 6, 21, 27, 127, 128, 130, 155, 255}

RECURSIVE SeqsUpTo(_, _)
SeqsUpTo(S, n) ==
    IF n = 0 THEN {<< >>}
    ELSE LET shorter == SeqsUpTo(S, n - 1)
         IN  shorter \cup {Append(q, b) : q \in {r \in shorter : Len(r) = n - 1},
                                          b \in S}

IdentitySample == {0, 2, 27, 255}

\* an axis argument: None or tenths of a degree
AxisSample == {None, Some(2), Some(-50), Some(135), Some(3600)}

TimeoutSample == {0, 3, 27, 120}

\* the argument tuples a command is called with
ArgSample(cmd_name) ==
    CASE cmd_name \in {"move_absolute", "move_delta"} ->
            {<< a, b >> : a \in AxisSample, b \in AxisSample}
      [] cmd_name = "set_communication_timeout" ->
            {<< t >> : t \in TimeoutSample}
      [] OTHER -> {<< >>}

NoCmd == [variant |-> "PTCR20", identity |-> 0, name |-> "", data |-> << >>]

CodecInputs ==
    {[kind |-> "bytes", p |-> q, cmd |-> NoCmd] : q \in SeqsUpTo(ByteSample, MaxLen)}
    \cup
    UNION {{[kind |-> "cmd", p |-> << >>,
             cmd |-> [variant |-> v, identity |-> id, name |-> n, data |-> d]] :
               v \in Variants, id \in IdentitySample, d \in ArgSample(n)} :
           n \in COMMAND_NAMES}

CodecInit ==
    /\ CtlInit
    /\ script = << Arrived >>
    /\ plan = script
    /\ cin \in CodecInputs
    /\ cfn = "input"
    /\ cout = << >>

ApplyEscape ==
    /\ cfn = "input"
    /\ cin.kind = "bytes"
    /\ cout' = escape_control_chars(cin.p)
    /\ cfn' = "escape_control_chars"
    /\ UNCHANGED << cin, ctl_vars >>

\* remove_escape_sequences applied to the output of escape_control_chars
ApplyUnescape ==
    /\ cfn = "escape_control_chars"
    /\ cout' = remove_escape_sequences(cout)
    /\ cfn' = "remove_escape_sequences"
    /\ UNCHANGED << cin, ctl_vars >>

ApplyAssemble ==
    /\ cfn = "input"
    /\ cin.kind = "cmd"
    /\ assemble_raises(cin.cmd.name, cin.cmd.data) = ""
    /\ cout' = assemble_packet(cin.cmd.variant, cin.cmd.identity,
                               cin.cmd.name, cin.cmd.data)
    /\ cfn' = "assemble_packet"
    /\ UNCHANGED << cin, ctl_vars >>

CodecNext ==
    \/ ApplyEscape
    \/ ApplyUnescape
    \/ ApplyAssemble

SpecCodec == CodecInit /\ [][CodecNext]_vars

(***************************************************************************)
(* The receive specification: one get_status call whose _receive reads a   *)
(* line that delivers an arbitrary byte stream, one byte at a time, and    *)
(* is silent once the stream has been delivered.  A read that finds no     *)
(* byte on the line is a read that timed out.                              *)
(***************************************************************************)
\* the bytes that may precede the rest of the stream: none of them is ACK
JunkKinds == {"zero", "etx", "mixed"}

Junk(kind, len) ==
    [k \in 1..len |-> CASE kind = "zero" -> 0
                        [] kind = "etx" -> ETX
                        [] kind = "mixed" -> IF k % 2 = 1 THEN NACK ELSE STX]

\* the bytes _receive tells apart (ACK, ETX) and one ordinary byte
LineByteSample == {ACK, ETX, 49}

\* the streams: up to ACK_WAIT_TIME + 1 bytes other than ACK, then any
\* sequence of up to MaxLen bytes
ReceiveInit ==
    /\ CtlInit
    /\ \E kind \in JunkKinds, len \in 0..(ACK_WAIT_TIME + 1) :
          \E tail \in SeqsUpTo(LineByteSample, MaxLen) :
             script = Junk(kind, len) \o tail
    /\ plan = script
    /\ cin = [kind |-> "none", p |-> << >>,
              cmd |-> [variant |-> "PTCR20", identity |-> 0, name |-> "",
                       data |-> << >>]]
    /\ cfn = "off"
    /\ cout = << >>

\* get_status is called, up to the first transport read
CallGetStatus ==
    /\ pc = "idle"
    /\ nops = 0
    /\ \E n \in {CallOperation(Ctl, [name |-> "get_status", args |-> << >>])} :
          SetCtl(n)
    /\ nops' = nops + 1
    /\ UNCHANGED << rxbuf, script, plan, codec_vars >>

\* the next byte of the stream arrives
LineDeliver ==
    /\ pc # "done"
    /\ plan # << >>
    /\ rxbuf' = Append(rxbuf, [byte |-> Head(plan), tag |-> 0])
    /\ plan' = Tail(plan)
    /\ UNCHANGED << pan, tilt, pan_destination, tilt_destination, op, pc,
                    stage, packet, rx, i, result, written, noresp, received,
                    parses, polled, warned, nops, nwritten, pending, rxsrc,
                    parsed, script, codec_vars >>

ReceiveNext ==
    \/ CallGetStatus
    \/ ReceiveAck
    \/ ReceiveBody
    \/ LineDeliver

SpecReceive == ReceiveInit /\ [][ReceiveNext]_vars

\* the streams of the fair specification: at most one byte before any
\* sequence of up to MaxLen bytes
FairReceiveInit ==
    /\ CtlInit
    /\ \E len \in 0..1 :
          \E tail \in SeqsUpTo(LineByteSample, MaxLen) :
             script = Junk("zero", len) \o tail
    /\ plan = script
    /\ cin = [kind |-> "none", p |-> << >>,
              cmd |-> [variant |-> "PTCR20", identity |-> 0, name |-> "",
                       data |-> << >>]]
    /\ cfn = "off"
    /\ cout = << >>

\* the program runs and each of its reads returns, with a byte or after the
\* read timeout; the line delivers what it has to deliver.  A read that
\* times out in the second loop of _receive changes nothing.
FairSpecReceive ==
    /\ FairReceiveInit
    /\ [][ReceiveNext]_vars
    /\ WF_vars(CallGetStatus)
    /\ WF_vars(ReceiveAck)
    /\ WF_vars(ReceiveBody)
    /\ WF_vars(LineDeliver)

(***************************************************************************)
(* The garbled-line specification: the controller's operations with a      *)
(* mount whose responses may arrive garbled, as a booting mount's may:     *)
(* with a wrong checksum byte or with the opcode of another command.       *)
(***************************************************************************)
GarbledCallSample ==
    {[name |-> "get_status", args |-> << >>],
     [name |-> "fault_reset", args |-> << >>],
     [name |-> "get_communication_timeout", args |-> << >>]}

GarbledPlanSample ==
    {<< Moving, Arrived >>,
     << DestEcho, Arrived >>}

\* a well-formed response, one whose checksum byte has a bit inverted, or
\* the well-formed response to another command
GarbledReply(kind, opcode, data) ==
    CASE kind = "valid" -> DeviceFrame(opcode, data)
      [] kind = "checksum" ->
            << ACK >>
            \o escape_control_chars(
                  << Identity, opcode >> \o data
                  \o << Xor(compute_lrc(<< opcode >> \o data)[1], 1) >>)
            \o << ETX >>
      [] kind = "command" ->
            DeviceFrame(IF opcode = 49 THEN 51 ELSE 49, data)

GarbledInit ==
    /\ CtlInit
    /\ script \in GarbledPlanSample
    /\ plan = script
    /\ cin = [kind |-> "none", p |-> << >>,
              cmd |-> [variant |-> "PTCR20", identity |-> 0, name |-> "",
                       data |-> << >>]]
    /\ cfn = "off"
    /\ cout = << >>

\* a public operation is called
GarbledCall ==
    /\ pc \in {"idle", "done"}
    /\ nops < MaxOps
    /\ \E call \in GarbledCallSample :
          \E n \in {CallOperation(Ctl, call)} : SetCtl(n)
    /\ nops' = nops + 1
    /\ UNCHANGED << rxbuf, script, plan, codec_vars >>

\* the mount answers the oldest frame it has not answered yet
GarbledRespond ==
    /\ pending # << >>
    /\ \E data \in ReplyData(Head(pending).frame), kind \in BootReplyKinds :
          rxbuf' = rxbuf
                   \o Tagged(GarbledReply(kind,
                                          DeviceOpcode(Head(pending).frame),
                                          data),
                             Head(pending).tag)
    /\ pending' = Tail(pending)
    /\ plan' = IF DeviceOpcode(Head(pending).frame) = 49 /\ Len(plan) > 1
               THEN Tail(plan) ELSE plan
    /\ UNCHANGED << pan, tilt, pan_destination, tilt_destination, op, pc,
                    stage, packet, rx, i, result, written, noresp, received,
                    parses, polled, warned, nops, nwritten, rxsrc, parsed,
                    script, codec_vars >>

GarbledNext ==
    \/ GarbledCall
    \/ ReceiveAck
    \/ ReceiveBody
    \/ GarbledRespond

SpecGarbled == GarbledInit /\ [][GarbledNext]_vars

(***************************************************************************)
(* The protocol specification: parse_packet, assemble_packet and           *)
(* check_for_faults applied to inputs drawn from bounded sets, and a       *)
(* controller operation started with such an input.                        *)
(***************************************************************************)
\* data bytes of a response: an ordinary byte, ETX, ESC and a byte with bit
\* 7 set
DataByteSample == {0, 3, 27, 130}

\* opcode bytes of a response: the registered ones and an unregistered one
\* that is a control character
OpcodeSample == {49, 51, 52, 53, 150, 27}

\* status data of ten bytes, and of more (camera data holding ESC and ETX;
\* every field with a value of its own)
StatusDataSample ==
    {StatusData(Moving), StatusData(HardFault),
     StatusData(Arrived) \o << 27, 3 >>,
     << 15, 39, 206, 255, 8, 16, 96, 5, 6, 1, 9 >>}

ResponseDataSample == SeqsUpTo(DataByteSample, MaxLen) \cup StatusDataSample

\* opcode | data | lrc
Payload(opcode, d) == << opcode >> \o d \o compute_lrc(<< opcode >> \o d)

\* byte b with bit n inverted
FlipBit(b, n) == IF Bit(b, n) = 1 THEN b - (2 ^ n) ELSE b + (2 ^ n)

\* the inbound frame of a payload: ACK, escape(identity | payload), ETX; no
\* identity byte for a variant without one
ResponseFrame(variant, identity, payload) ==
    << ACK >>
    \o escape_control_chars(_add_identity_byte(variant, identity, payload))
    \o << ETX >>

\* bytes of a frame that is not built from a payload
RawByteSample == {ACK, ETX, ESC, 49, 0}

RECURSIVE SeqsOfLen(_, _)
SeqsOfLen(S, n) ==
    IF n = 0 THEN {<< >>}
    ELSE {Append(q, b) : q \in SeqsOfLen(S, n - 1), b \in S}

\* command names outside the registry
UnknownNames == {"stop", "status"}

\* timeout arguments inside and outside 0..120
AnyTimeoutSample == TimeoutSample \cup {-1, 121, 200}

\* axis status bytes: no flag, each flag class alone, and mixtures
StatusByteSample == {0, 1, 2, 4, 8, 16, 128, 14, 255}

\* the input of one behaviour is chosen
ProtocolInput ==
    \* a response that carries opcode o and data d, parsed under name n
    \/ \E o \in OpcodeSample, d \in ResponseDataSample, n \in COMMAND_NAMES,
          v \in Variants, id \in IdentitySample :
          cin = [kind |-> "response", p |-> << o >>,
                 cmd |-> [variant |-> v, identity |-> id, name |-> n,
                          data |-> d]]
    \* the response to n with data d and bit b of byte k of its payload
    \* inverted
    \/ \E n \in COMMAND_NAMES, d \in ResponseDataSample :
          \E k \in 1..(Len(d) + 2), b \in 0..7 :
             cin = [kind |-> "corrupted", p |-> << k, b >>,
                    cmd |-> [variant |-> "PTCR20", identity |-> 0,
                             name |-> n, data |-> d]]
    \* the response to n with data d and bit b of byte k of the frame on
    \* the wire inverted, byte k being the opcode, a data byte or the
    \* checksum byte as transmitted (not an ESC marker)
    \/ \E n \in COMMAND_NAMES, d \in ResponseDataSample :
          LET f == ResponseFrame("PTCR20", 0, Payload(number(n), d))
          IN  \E k \in 3..(Len(f) - 1), b \in 0..7 :
                 /\ f[k] # ESC
                 /\ cin = [kind |-> "flipped", p |-> << k, b >>,
                           cmd |-> [variant |-> "PTCR20", identity |-> 0,
                                    name |-> n, data |-> d]]
    \* any non-empty byte string of up to MaxLen + 2 bytes handed to
    \* parse_packet as a frame
    \/ \E len \in 1..(MaxLen + 2) :
          \E f \in SeqsOfLen(RawByteSample, len),
             n \in {"get_status", "home"}, v \in Variants :
             cin = [kind |-> "raw", p |-> f,
                    cmd |-> [variant |-> v, identity |-> 0, name |-> n,
                             data |-> << >>]]
    \* a call of assemble_packet, registered name or not
    \/ \E n \in COMMAND_NAMES \cup UnknownNames :
          \E v \in Variants, id \in IdentitySample,
             d \in (IF n = "set_communication_timeout"
                    THEN {<< t >> : t \in AnyTimeoutSample}
                    ELSE ArgSample(n)) :
             cin = [kind |-> "call", p |-> << >>,
                    cmd |-> [variant |-> v, identity |-> id, name |-> n,
                             data |-> d]]
    \* a call of assemble_packet on a PTCR20 with any other identity
    \/ \E n \in {"home", "fault_reset"}, id \in (0..255) \ IdentitySample :
          cin = [kind |-> "call", p |-> << >>,
                 cmd |-> [variant |-> "PTCR20", identity |-> id, name |-> n,
                          data |-> << >>]]
    \* a pair of axis status bytes
    \/ \E ps \in StatusByteSample, ts \in StatusByteSample :
          cin = [kind |-> "status", p |-> << ps, ts >>, cmd |-> NoCmd]

ProtocolInit ==
    /\ CtlInit
    /\ script = << Arrived >>
    /\ plan = script
    /\ ProtocolInput
    /\ cfn = "input"
    /\ cout = << >>

\* the payload (opcode | data | lrc) of a response input
InputPayload(in) ==
    IF in.kind = "response" THEN Payload(in.p[1], in.cmd.data)
    ELSE IF in.kind = "flipped"
    THEN Payload(number(in.cmd.name), in.cmd.data)
    ELSE [Payload(number(in.cmd.name), in.cmd.data)
              EXCEPT ![in.p[1]] = FlipBit(@, in.p[2])]

\* the frame parse_packet is given for an input
InputFrame(in) ==
    IF in.kind = "raw" THEN in.p
    ELSE IF in.kind = "flipped"
    THEN [ResponseFrame(in.cmd.variant, in.cmd.identity, InputPayload(in))
              EXCEPT ![in.p[1]] = FlipBit(@, in.p[2])]
    ELSE ResponseFrame(in.cmd.variant, in.cmd.identity, InputPayload(in))

\* parse_packet(name, frame)
ParsePacket ==
    /\ cfn = "input"
    /\ cin.kind \in {"response", "corrupted", "flipped", "raw"}
    /\ cout' = parse_packet(cin.cmd.variant, cin.cmd.name, InputFrame(cin))
    /\ cfn' = "parse_packet"
    /\ UNCHANGED << cin, ctl_vars >>

\* assemble_packet(name, *data): the frame returned or the exception raised
assemble_packet_outcome(variant, identity, cmd_name, data) ==
    IF assemble_raises(cmd_name, data) # ""
    THEN Raise(assemble_raises(cmd_name, data), "assemble")
    ELSE Return(assemble_packet(variant, identity, cmd_name, data))

AssemblePacket ==
    /\ cfn = "input"
    /\ cin.kind = "call"
    /\ cout' = assemble_packet_outcome(cin.cmd.variant, cin.cmd.identity,
                                       cin.cmd.name, cin.cmd.data)
    /\ cfn' = "assemble_packet"
    /\ UNCHANGED << cin, ctl_vars >>

\* a controller operation (a public one, or _execute_move_command with the
\* name given) called on the fresh controller, up to its first transport
\* read or to the exception assemble_packet raises
StartOperation ==
    /\ cfn = "input"
    /\ cin.kind = "call"
    /\ cin.cmd.variant = TheVariant
    /\ cin.cmd.identity = Identity
    /\ pc = "idle"
    /\ \E n \in {CallOperation(Ctl, [name |-> cin.cmd.name,
                                      args |-> cin.cmd.data])} : SetCtl(n)
    /\ nops' = nops + 1
    /\ cfn' = "operation"
    /\ UNCHANGED << cin, cout, rxbuf, script, plan >>

\* check_for_faults(status)
CheckForFaults ==
    /\ cfn = "input"
    /\ cin.kind = "status"
    /\ cout' = check_for_faults(StatusOf(0, 0, cin.p[1], cin.p[2], 0))
    /\ cfn' = "check_for_faults"
    /\ UNCHANGED << cin, ctl_vars >>

ProtocolNext ==
    \/ ParsePacket
    \/ AssemblePacket
    \/ StartOperation
    \/ CheckForFaults

SpecProtocol == ProtocolInit /\ [][ProtocolNext]_vars

(***************************************************************************)
(* The function specification: the static methods of QuicksetProtocol      *)
(* (compute_lrc, int_to_bytes, bytes_to_int, escape_control_chars,         *)
(* remove_escape_sequences) applied to inputs drawn from bounded sets.     *)
(***************************************************************************)
\* byte strings longer than MaxLen that the functions are applied to
ByteLiterals ==
    {<< 51, 1, 0, 2, 0 >>, << 27, 130, 27, 131 >>, << 27, 27, 130, 27 >>}

\* the signed 16-bit range and what lies just outside it
IntSample == (-32770)..32770

FunctionInput ==
    \/ \E q \in SeqsUpTo(ByteSample, MaxLen) \cup ByteLiterals :
          cin = [kind |-> "bytes", p |-> q, cmd |-> NoCmd]
    \/ \E v \in IntSample :
          cin = [kind |-> "int", p |-> << v >>, cmd |-> NoCmd]

FunctionInit ==
    /\ CtlInit
    /\ script = << Arrived >>
    /\ plan = script
    /\ FunctionInput
    /\ cfn = "input"
    /\ cout = << >>

\* compute_lrc(byte_array)
ComputeLrc ==
    /\ cfn = "input"
    /\ cin.kind = "bytes"
    /\ cout' = compute_lrc(cin.p)
    /\ cfn' = "compute_lrc"
    /\ UNCHANGED << cin, ctl_vars >>

\* int_to_bytes(integer): the bytes returned or the exception raised
IntToBytes ==
    /\ cfn = "input"
    /\ cin.kind = "int"
    /\ cout' = IF int_to_bytes_raises(cin.p[1])
               THEN Raise("OverflowError", "range")
               ELSE Return(int_to_bytes(cin.p[1]))
    /\ cfn' = "int_to_bytes"
    /\ UNCHANGED << cin, ctl_vars >>

\* bytes_to_int applied to a byte string, or to what int_to_bytes returned
BytesToInt ==
    /\ \/ cfn = "input" /\ cin.kind = "bytes"
       \/ cfn = "int_to_bytes" /\ cout.err = ""
    /\ LET two_bytes == IF cfn = "input" THEN cin.p ELSE cout.val[1]
       IN  cout' = IF bytes_to_int_raises(two_bytes)
                   THEN Raise("struct.error", "length")
                   ELSE Return(bytes_to_int(two_bytes))
    /\ cfn' = "bytes_to_int"
    /\ UNCHANGED << cin, ctl_vars >>

\* escape_control_chars(packet)
EscapeControlChars ==
    /\ cfn = "input"
    /\ cin.kind = "bytes"
    /\ cout' = escape_control_chars(cin.p)
    /\ cfn' = "escape_control_chars"
    /\ UNCHANGED << cin, ctl_vars >>

\* remove_escape_sequences(packet), for any byte string
RemoveEscapeSequences ==
    /\ cfn = "input"
    /\ cin.kind = "bytes"
    /\ cout' = remove_escape_sequences(cin.p)
    /\ cfn' = "remove_escape_sequences"
    /\ UNCHANGED << cin, ctl_vars >>

FunctionNext ==
    \/ ComputeLrc
    \/ IntToBytes
    \/ BytesToInt
    \/ EscapeControlChars
    \/ RemoveEscapeSequences

SpecFunctions == FunctionInit /\ [][FunctionNext]_vars

(***************************************************************************)
(* Properties.                                                             *)
(***************************************************************************)
\* a limit flag (bits 4-7) of an axis status is set: a soft fault
LimitFlagSet(axis_status) == axis_status \div 16 # 0

\* neither axis of the status carries a hard fault (TO, DE, OL) or a soft
\* fault (limit flag)
NoFault(st) ==
    /\ ~status_has_hard_faults(st.pan_status, st.tilt_status)
    /\ ~LimitFlagSet(st.pan_status)
    /\ ~LimitFlagSet(st.tilt_status)

\* the first operation on a fresh controller is a move, its frame was
\* acknowledged and its response read, and the move has ended
FirstMoveEnded ==
    /\ nops = 1
    /\ op.name \in MoveCommands
    /\ received >= 1
    /\ pc = "done"

\* the script reports EXEC set and no fault on every poll but the last, and
\* EXEC clear and no fault on the last
ScriptMovesThenArrives ==
    \A k \in 1..Len(script) :
        /\ NoFault(script[k])
        /\ EXEC(script[k].gen_status) <=> k < Len(script)

\* C1: a move whose frame is acknowledged, on a transport whose first n-1
\* status polls report EXEC set without fault and whose n-th reports EXEC
\* clear without fault, returns "successful" after exactly n get_status
\* round trips.
C1_MoveSuccessfulAfterNPolls ==
    (FirstMoveEnded /\ ScriptMovesThenArrives)
        => /\ result = Return(TRUE)
           /\ Len(polled) = Len(script)

\* the script reports a fault on poll k and EXEC set without fault before it
ScriptFaultsAt(k) ==
    /\ k \in 1..Len(script)
    /\ ~NoFault(script[k])
    /\ \A j \in 1..(k - 1) : NoFault(script[j]) /\ EXEC(script[j].gen_status)

\* C3: a polled status that carries a hard or soft fault ends the move in
\* that iteration with the result "unsuccessful", without a further poll
\* and without raising, also when EXEC is clear in that status.
C3_FaultEndsMoveUnsuccessful ==
    \A k \in 1..Len(script) :
        (FirstMoveEnded /\ ScriptFaultsAt(k))
            => /\ result = Return(FALSE)
               /\ Len(polled) = k

\* C4: after k >= 1 consecutive acknowledgment waits of a move that ended in
\* "no response", exactly k+1 frames were written, all identical to the
\* first, no parse was attempted and the move has neither returned nor
\* failed.
C4_MoveResendsSameFrame ==
    (op.name \in MoveCommands /\ noresp >= 1 /\ received = 0)
        => /\ Len(written) = noresp + 1
           /\ \A k \in 1..Len(written) : written[k] = written[1]
           /\ parses = 0
           /\ pc # "done"

C4_Witness ==
    /\ op.name = "move_absolute"
    /\ noresp = 2
    /\ received = 0
    /\ Len(written) = 3
    /\ written[3] = written[1]
    /\ pc = "ack_wait"

\* C5: in every public operation an acknowledgment wait that ends in "no
\* response" is answered by writing the frame again and is never surfaced
\* to the caller as an error.
C5_NoResponseResentNotRaised ==
    (op.name # "none" /\ noresp >= 1)
        => /\ Len(written) >= noresp + 1
           /\ ~(pc = "done" /\ result.err # "")

\* the one frame parsed so far by the operation answers a frame the
\* operation wrote
OwnResponseParsed ==
    /\ received = 1
    /\ parses = 1
    /\ parsed[1] > nwritten - Len(written)

\* C6: once a move's frame is acknowledged and its response read, the
\* response is parsed into a StatusResponse and the position/destination
\* fields are updated from it per its DES flag (the device's response to a
\* move is the destination echo, DES set).
C6_MoveResponseParsedAndApplied ==
    (op.name \in MoveCommands /\ OwnResponseParsed)
        => /\ result.err = ""
           /\ pan_destination = Some(DestEcho.pan)
           /\ tilt_destination = Some(DestEcho.tilt)

CoordinateFields == << pan, tilt, pan_destination, tilt_destination >>

\* what parse_packet makes of the response that the step completes
C7_Parsed ==
    parse_packet(TheVariant,
                 IF stage = "poll" THEN "get_status" ELSE op.name,
                 Append(rx, ETX))

\* the step reads the ETX of a response of get_status or of a move, and the
\* response parses
C7_StatusParsed ==
    /\ pc = "body"
    /\ rxbuf # << >>
    /\ Head(rxbuf).byte = ETX
    /\ parses' = parses + 1
    /\ op.name \in MoveCommands \cup {"get_status"}
    /\ C7_Parsed.err = ""

C7_Step ==
    IF C7_StatusParsed
    THEN IF DES(C7_Parsed.val[1].gen_status)
         THEN /\ pan_destination' = Some(C7_Parsed.val[1].pan)
              /\ tilt_destination' = Some(C7_Parsed.val[1].tilt)
              /\ UNCHANGED << pan, tilt >>
         ELSE /\ pan' = Some(C7_Parsed.val[1].pan)
              /\ tilt' = Some(C7_Parsed.val[1].tilt)
              /\ UNCHANGED << pan_destination, tilt_destination >>
    ELSE UNCHANGED CoordinateFields

\* C7: after every successfully parsed status response handled by
\* get_status or by a move: with DES set the destination fields become the
\* response's pan and tilt and the current fields are unchanged, with DES
\* clear the current fields become the response's values and the
\* destination fields are unchanged; all four fields are None until the
\* first such update (no other step changes them).
C7_FieldsFollowDES ==
    /\ CoordinateFields = << None, None, None, None >>
    /\ [][C7_Step]_vars

C7_Witness ==
    /\ op.name = "get_status"
    /\ pc = "done"
    /\ result.err = ""
    /\ pan = Some(Arrived.pan)
    /\ tilt = Some(Arrived.tilt)
    /\ pan_destination = Some(DestEcho.pan)
    /\ tilt_destination = Some(DestEcho.tilt)

\* the frames written whose response is not completely read yet
Outstanding ==
    {pending[k].tag : k \in 1..Len(pending)}
    \cup {rxbuf[k].tag : k \in 1..Len(rxbuf)}
    \cup (IF pc = "body" THEN {rxsrc} ELSE {})

\* C8: at most one command is outstanding at any time, and a response handed
\* to parse_packet was produced by the device in answer to the most
\* recently written frame.
C8_OneOutstandingCommand ==
    /\ Cardinality(Outstanding) <= 1
    /\ parsed[1] # 0 => parsed[1] = parsed[2]

\* C9: remove_escape_sequences(escape_control_chars(p)) = p for every byte
\* sequence p: the empty one, those made of control characters only, and
\* those that already hold bytes with bit 7 set.
C9_EscapeRoundTrip ==
    cfn = "remove_escape_sequences" => cout = cin.p

C9_Witness ==
    /\ cfn = "remove_escape_sequences"
    /\ cin.p = << 27, 130, 2 >>
    /\ cout = << 27, 130, 2 >>

\* the frame the claim describes for a command c
C10_Frame(c) ==
    LET body == << number(c.name) >> \o AssembleData(c.variant, c.name, c.data)
        lrc == LrcFold(body, 1, 0)
        id == IF c.variant = "PTCR20" THEN << c.identity >> ELSE << >>
    IN  << STX >> \o escape_control_chars(id \o body \o << lrc >>) \o << ETX >>

\* C10: for every known command and valid arguments assemble_packet returns
\* STX, escape(identity + opcode + data + lrc), ETX with lrc the XOR-fold of
\* opcode + data only; data is empty for home; a variant without identity
\* has no identity byte.
C10_AssembleLayout ==
    cfn = "assemble_packet"
        => /\ cout = C10_Frame(cin.cmd)
           /\ (cin.cmd.name = "home" /\ cin.cmd.variant = "PTHR90")
                 => cout = << STX, 53, 53, ETX >>

C10_Witness ==
    /\ cfn = "assemble_packet"
    /\ cin.cmd = [variant |-> "PTCR20", identity |-> 2, name |-> "home",
                  data |-> << >>]
    /\ cout = << 2, 27, 130, 53, 53, 3 >>

\* the input is the response to its command, well formed
WellFormedResponse ==
    /\ cin.kind = "response"
    /\ cin.p[1] = number(cin.cmd.name)

\* C11: for every command name and data d, parse_packet of the frame
\* ACK, escape(identity + opcode + d + lrc), ETX raises no framing, checksum
\* or command-mismatch fault and ends as the command's typed parse routine
\* applied to d ends (same value returned, or same exception).
C11_ParseOfWellFormedFrame ==
    (cfn = "parse_packet" /\ WellFormedResponse)
        => /\ cout.why \notin {"framing", "checksum", "command"}
           /\ cout = ParseData(cin.cmd.variant, cin.cmd.name, cin.cmd.data)

C11_Witness ==
    /\ cfn = "parse_packet"
    /\ WellFormedResponse
    /\ cin.cmd.name = "get_status"
    /\ cin.cmd.variant = "PTCR20"
    /\ cin.cmd.identity = 27
    /\ cin.cmd.data = StatusData(Arrived) \o << 27, 3 >>
    /\ cout.err = ""
    /\ cout.val[1].pan = 2
    /\ cout.val[1].tilt = 3
    /\ cout.val[1].camera_data = << 27, 3 >>

\* C12: parse_packet fails with the framing error for every frame whose
\* first byte is not ACK or whose last byte is not ETX, whatever the bytes
\* in between are (no unescaping, checksum or opcode check comes first),
\* and returns no result.
C12_FramingFault ==
    (/\ cfn = "parse_packet"
     /\ \/ InputFrame(cin)[1] # ACK
        \/ InputFrame(cin)[Len(InputFrame(cin))] # ETX)
        => cout = Raise("RuntimeError", "framing")

\* a frame that lacks only its ETX
C12_Witness ==
    /\ cfn = "parse_packet"
    /\ cin.kind = "raw"
    /\ cin.cmd.variant = "PTCR20"
    /\ cin.cmd.name = "get_status"
    /\ cin.p = << ACK, 0, 49, 49 >>
    /\ cout = Raise("RuntimeError", "framing")

\* the frame given to parse_packet has ACK and ETX around at least the
\* identity byte
InputFramed ==
    /\ packet_valid(InputFrame(cin))
    /\ Len(InputFrame(cin)) >= 3

\* the bytes left after stripping ACK and ETX, unescaping and removing the
\* identity byte
InputBytesLeft ==
    LET f == InputFrame(cin)
        unescaped == remove_escape_sequences(SubSeq(f, 2, Len(f) - 1))
    IN  IF cin.cmd.variant = "PTCR20" /\ unescaped # << >>
        THEN Tail(unescaped) ELSE unescaped

\* the inverted bit of a "flipped" input is bit 7 of a byte transmitted
\* after an ESC marker, and that byte is not the escaped ESC
C13_EscapeBitFlipped ==
    LET f == ResponseFrame(cin.cmd.variant, cin.cmd.identity,
                           InputPayload(cin))
    IN  /\ cin.p[2] = 7
        /\ f[cin.p[1] - 1] = ESC
        /\ f[cin.p[1]] # ESC + 128

\* C13: parse_packet fails with the checksum fault whenever the bytes left
\* after stripping ACK/ETX, unescaping and removing the identity byte do not
\* XOR-fold to zero; a well-formed response in which one bit of the opcode,
\* of a data byte or of the checksum byte is inverted before escaping is
\* always rejected with that fault and yields no parsed result.  A bit
\* inverted in the frame as transmitted is rejected the same way, except
\* bit 7 of a byte that follows an ESC marker: unescaping clears that bit
\* anyway and the frame parses as the unaltered frame does.
C13_ChecksumFault ==
    cfn = "parse_packet"
        => /\ (InputFramed /\ LrcFold(InputBytesLeft, 1, 0) # 0)
                 => cout = Raise("RuntimeError", "checksum")
           /\ cin.kind = "corrupted"
                 => cout = Raise("RuntimeError", "checksum")
           /\ cin.kind = "flipped"
                 => cout = IF C13_EscapeBitFlipped
                           THEN ParseData(cin.cmd.variant, cin.cmd.name,
                                          cin.cmd.data)
                           ELSE Raise("RuntimeError", "checksum")

\* bit 7 of the data byte ESC of a timeout response is inverted
C13_Witness ==
    /\ cfn = "parse_packet"
    /\ cin.kind = "corrupted"
    /\ cin.cmd.name = "set_communication_timeout"
    /\ cin.cmd.data = << 27 >>
    /\ cin.p = << 2, 7 >>
    /\ InputPayload(cin) = << 150, 155, 141 >>
    /\ cout = Raise("RuntimeError", "checksum")

\* C13 as stated, for a bit inverted in the frame as transmitted: every
\* such frame is rejected with the checksum fault.
C13_FlippedFrameRejected ==
    (cfn = "parse_packet" /\ cin.kind = "flipped")
        => cout = Raise("RuntimeError", "checksum")

\* the frame given to parse_packet is framed, its bytes fold to zero and
\* they hold at least an opcode and a checksum
FramedAndChecksummed ==
    /\ InputFramed
    /\ LrcFold(InputBytesLeft, 1, 0) = 0
    /\ Len(InputBytesLeft) >= 2

\* C14: for a correctly framed and checksummed frame, parse_packet fails
\* with the command-mismatch fault exactly when the opcode byte differs from
\* the opcode registered for the name, and otherwise returns what the typed
\* parse routine makes of the data bytes; a frame with opcode 0x31 is
\* accepted under get_status and under fault_reset, one with opcode 0x96
\* under get_ and under set_communication_timeout.
C14_CommandMismatch ==
    (cfn = "parse_packet" /\ FramedAndChecksummed)
        => LET local_packet == InputBytesLeft
               data == SubSeq(local_packet, 2, Len(local_packet) - 1)
           IN  /\ local_packet[1] # number(cin.cmd.name)
                     => cout = Raise("RuntimeError", "command")
               /\ local_packet[1] = number(cin.cmd.name)
                     => cout = ParseData(cin.cmd.variant, cin.cmd.name, data)
               /\ (/\ local_packet[1] = 49
                   /\ cin.cmd.name \in {"get_status", "fault_reset"})
                     => cout.why # "command"
               /\ (/\ local_packet[1] = 150
                   /\ cin.cmd.name \in {"get_communication_timeout",
                                        "set_communication_timeout"})
                     => cout.why # "command"

\* a move_absolute response (opcode 0x33) parsed under get_status
C14_Witness ==
    /\ cfn = "parse_packet"
    /\ cin.kind = "response"
    /\ cin.cmd.name = "get_status"
    /\ cin.p = << 51 >>
    /\ cin.cmd.data = StatusData(Moving)
    /\ FramedAndChecksummed
    /\ cout = Raise("RuntimeError", "command")

\* C15: assemble_packet with a name that is not in the registry raises
\* NotImplementedError and returns no frame; a controller operation that
\* uses such a name ends with that exception and has written nothing to the
\* transport.
C15_UnknownCommand ==
    /\ (cfn = "assemble_packet" /\ cin.cmd.name \notin COMMAND_NAMES)
          => cout = Raise("NotImplementedError", "assemble")
    /\ (cfn = "operation" /\ op.name \notin COMMAND_NAMES)
          => /\ pc = "done"
             /\ result = Raise("NotImplementedError", "assemble")
             /\ written = << >>
             /\ pending = << >>

\* the controller was asked for "stop"
C15_Witness ==
    /\ cfn = "operation"
    /\ cin.cmd.name = "stop"
    /\ op.name = "stop"
    /\ pc = "done"
    /\ result.err = "NotImplementedError"
    /\ written = << >>

\* C16: a communication timeout outside 0..120 is rejected before any byte
\* is sent: assemble_packet produces no frame for it and the controller's
\* setter writes nothing to the transport; for a value in 0..120 the single
\* data byte of the frame equals the value.
C16_OutOfRangeTimeoutRejected ==
    /\ (/\ cfn = "assemble_packet"
        /\ cin.cmd.name = "set_communication_timeout")
          => IF cin.cmd.data[1] \in 0..120
             THEN /\ cout.err = ""
                  /\ LET frame == cout.val[1]
                         body == _remove_identity_byte(cin.cmd.variant,
                                    remove_escape_sequences(
                                        SubSeq(frame, 2, Len(frame) - 1)))
                     IN  /\ Len(body) = 3
                         /\ body[2] = cin.cmd.data[1]
             ELSE cout.val = None
    /\ (/\ cfn = "operation"
        /\ op.name = "set_communication_timeout"
        /\ op.args[1] \notin 0..120)
          => /\ written = << >>
             /\ pending = << >>

\* the set_communication_timeout frame of the setter in progress
SetTimeoutFrame ==
    assemble_packet(TheVariant, Identity, "set_communication_timeout",
                    op.args)

SetterCalled == op.name = "set_communication_timeout" /\ pc # "idle"

\* what parse_packet makes of the frame the setter read
EchoedTimeout == parse_packet(TheVariant, "set_communication_timeout", rx)

\* C17 as stated: a setter that has returned wrote the set frame and then
\* the get_communication_timeout request.
C17_SetterIssuesGet ==
    (SetterCalled /\ pc = "done" /\ result.err = "")
        => /\ Len(written) = 2
           /\ written[1] = SetTimeoutFrame
           /\ written[2] = assemble_packet(TheVariant, Identity,
                                           "get_communication_timeout",
                                           << >>)

\* C17: the communication_timeout setter writes the
\* set_communication_timeout frame and nothing else, reads one response and
\* parses it once, as the response to set_communication_timeout; it writes
\* no get_communication_timeout request, and when it returns, the frame it
\* read parsed to a timeout value.
C17_SetterReadsSetResponse ==
    SetterCalled
        => /\ written = << SetTimeoutFrame >>
           /\ pc = "done" => parses = 1
           /\ pc # "done" => parses = 0
           /\ (pc = "done" /\ result.err = "")
                 => /\ received = 1
                    /\ EchoedTimeout.err = ""

\* the setter has returned after one frame written and one response read
C17_Witness ==
    /\ SetterCalled
    /\ op.args = << 30 >>
    /\ pc = "done"
    /\ result = ReturnNone
    /\ written = << SetTimeoutFrame >>
    /\ received = 1
    /\ EchoedTimeout = Return(30)

\* C18: when the timeout value echoed by the device differs from the
\* requested one the setter warns exactly once, returns normally and does
\* not write the set frame again; when they are equal it does not warn.
\* (The warning assemble_packet gives for a value outside 0..120 is counted
\* apart.)
C18_MismatchWarnsOnce ==
    (SetterCalled /\ pc = "done" /\ received = 1 /\ EchoedTimeout.err = "")
        => /\ result = ReturnNone
           /\ Len(written) = 1
           /\ warned = AssembleWarnings(op)
                         + (IF EchoedTimeout.val[1] # op.args[1]
                            THEN 1 ELSE 0)

\* 30 was requested and the device echoed 120
C18_Witness ==
    /\ SetterCalled
    /\ op.args = << 30 >>
    /\ pc = "done"
    /\ received = 1
    /\ EchoedTimeout = Return(120)
    /\ warned = 1
    /\ result = ReturnNone
    /\ Len(written) = 1

\* C19: fault_reset writes one fault_reset frame, parses the response as a
\* status and returns TRUE exactly when neither axis status carries a hard
\* fault (TO, DE, OL), FALSE otherwise, without raising; limit flags alone
\* do not make it FALSE.
C19_FaultResetReportsHardFaults ==
    LET status == parse_packet(TheVariant, "fault_reset", rx)
    IN  (/\ op.name = "fault_reset"
         /\ pc = "done"
         /\ received = 1
         /\ status.err = "")
            => /\ Len(written) = 1
               /\ result = Return(~status_has_hard_faults(
                                      status.val[1].pan_status,
                                      status.val[1].tilt_status))

\* C20: check_for_faults returns, for a pair of axis status bytes, the list
\* of active hard faults (TO bit 3, DE bit 2, OL bit 1, per axis) and the
\* list of active soft faults (the limit flags, bits 4-7, per axis); bit 0
\* is in neither; both lists are empty when no such bit is set.
C20_ClassifiesFaults ==
    cfn = "check_for_faults"
        => LET HardBits(a) == {n \in 1..3 : Bit(a, n) = 1}
               SoftBits(a) == {n \in 4..7 : Bit(a, n) = 1}
           IN  /\ cout.err = ""
               /\ Len(cout.val[1][1]) =
                     Cardinality(HardBits(cin.p[1]))
                       + Cardinality(HardBits(cin.p[2]))
               /\ Len(cout.val[1][2]) =
                     Cardinality(SoftBits(cin.p[1]))
                       + Cardinality(SoftBits(cin.p[2]))

InHandshake == op.name = "_wait_for_initialization"

\* what parse_packet makes of the frame last read by get_status
LastStatusParse == parse_packet(TheVariant, "get_status", rx)

\* C21: the startup handshake treats every malformed-response outcome (no
\* response, framing, checksum or command-mismatch fault) as "not yet
\* booted" and polls again; it completes at the first poll that yields a
\* validly parsed status and never before: it never ends with an exception,
\* and when it has ended the last frame read parsed to a status.
C21_HandshakeToleratesMalformed ==
    (InHandshake /\ pc = "done")
        => /\ result = ReturnNone
           /\ received >= 1
           /\ LastStatusParse.err = ""

\* byte string p rearranged by the permutation f of its indices
Permuted(p, f) == [k \in 1..Len(p) |-> p[f[k]]]

\* C22: compute_lrc is the XOR-fold of its input: the checksum of p followed
\* by its own checksum is zero for every non-empty p, every permutation of p
\* has the same checksum, and the checksum of 0x33, 0x01, 0x00, 0x02, 0x00
\* is 0x30.
C22_LrcLaws ==
    (cfn = "compute_lrc" /\ cin.p # << >>)
        => /\ Len(cout) = 1
           /\ cout[1] \in 0..255
           /\ compute_lrc(cin.p \o cout) = << 0 >>
           /\ \A f \in Permutations(1..Len(cin.p)) :
                 compute_lrc(Permuted(cin.p, f)) = cout
           /\ cin.p = << 51, 1, 0, 2, 0 >> => cout = << 48 >>

C22_Witness ==
    /\ cfn = "compute_lrc"
    /\ cin.p = << 51, 1, 0, 2, 0 >>
    /\ cout = << 48 >>

\* C23: int_to_bytes encodes v as two bytes, low byte first, in two's
\* complement, and bytes_to_int gives v back, for every v in
\* -32768..32767; int_to_bytes raises for every v outside that range and
\* bytes_to_int raises for every input that is not exactly two bytes long.
C23_Int16RoundTrip ==
    /\ (cfn = "int_to_bytes" /\ cin.kind = "int")
          => LET v == cin.p[1]
                 w == IF v < 0 THEN v + 65536 ELSE v
             IN  IF v \in (-32768)..32767
                 THEN cout = Return(<< w % 256, w \div 256 >>)
                 ELSE cout.err # ""
    /\ (cfn = "bytes_to_int" /\ cin.kind = "int") => cout = Return(cin.p[1])
    /\ (cfn = "bytes_to_int" /\ cin.kind = "bytes")
          => IF Len(cin.p) = 2
             THEN /\ cout.err = ""
                  /\ cout.val[1] \in (-32768)..32767
                  /\ (cout.val[1] - (cin.p[1] + (256 * cin.p[2]))) % 65536 = 0
             ELSE cout.err # ""

\* -50 went through int_to_bytes (0xCE, 0xFF) and came back
C23_Witness ==
    /\ cfn = "bytes_to_int"
    /\ cin.kind = "int"
    /\ cin.p = << -50 >>
    /\ cout = Return(-50)

\* C24: escape_control_chars replaces every byte equal to 0x02, 0x03, 0x06,
\* 0x15 or 0x1B by the pair ESC, byte | 0x80 and copies every other byte, in
\* order; the output is longer than the input by the number of such bytes;
\* 0x02 gives 1B 82, 0x1B gives 1B 9B, and 02 03 gives 1B 82 1B 83.
C24_EscapeByteByByte ==
    cfn = "escape_control_chars"
        => LET p == cin.p
               IsControl(k) == p[k] \in {2, 3, 6, 21, 27}
               \* where the image of byte k starts in the output
               Pos(k) == k + Cardinality({j \in 1..(k - 1) : IsControl(j)})
           IN  /\ Len(cout) =
                     Len(p) + Cardinality({j \in 1..Len(p) : IsControl(j)})
               /\ \A k \in 1..Len(p) :
                     IF IsControl(k)
                     THEN /\ cout[Pos(k)] = 27
                          /\ cout[Pos(k) + 1] = p[k] + 128
                     ELSE cout[Pos(k)] = p[k]
               /\ p = << 2 >> => cout = << 27, 130 >>
               /\ p = << 27 >> => cout = << 27, 155 >>
               /\ p = << 2, 3 >> => cout = << 27, 130, 27, 131 >>

\* NACK between two ordinary bytes
C24_Witness ==
    /\ cfn = "escape_control_chars"
    /\ cin.p = << 0, 21, 255 >>
    /\ cout = << 0, 27, 149, 255 >>

\* remove_escape_sequences as stated: an ESC is discarded and the byte after
\* it is emitted with bit 7 cleared, whatever it is; a byte not preceded by
\* an ESC is emitted unchanged; an ESC at the end is dropped
RECURSIVE StatedUnescape(_, _)
StatedUnescape(bytes, k) ==
    IF k > Len(bytes) THEN << >>
    ELSE IF bytes[k] = ESC
         THEN IF k = Len(bytes) THEN << >>
              ELSE << ClearBit7(bytes[k + 1]) >>
                   \o StatedUnescape(bytes, k + 2)
         ELSE << bytes[k] >> \o StatedUnescape(bytes, k + 1)

\* C25: for every byte string, remove_escape_sequences discards each ESC
\* and emits the byte that follows it with bit 7 cleared, whatever that byte
\* is (also when it is 0x1B itself), and passes every other byte through;
\* 1B 9B gives 1B and 1B 82 1B 83 gives 02 03.
C25_UnescapeAnyBytes ==
    cfn = "remove_escape_sequences"
        => /\ cout = StatedUnescape(cin.p, 1)
           /\ cin.p = << 27, 155 >> => cout = << 27 >>
           /\ cin.p = << 27, 130, 27, 131 >> => cout = << 2, 3 >>

\* assemble_packet returned a frame for the call drawn
Assembled == cfn = "assemble_packet" /\ cout.err = ""

\* the frame assemble_packet returned without STX and ETX, unescaped
AssembledUnescaped ==
    remove_escape_sequences(SubSeq(cout.val[1], 2, Len(cout.val[1]) - 1))

\* opcode | data | lrc of the frame assemble_packet returned
AssembledBody ==
    IF cin.cmd.variant = "PTCR20" THEN Tail(AssembledUnescaped)
    ELSE AssembledUnescaped

\* C26: get_status and fault_reset assemble frames with opcode 0x31 and
\* five data bytes: five zero bytes for get_status; 0x01 (only the RESET
\* bit) and four zero jog bytes for fault_reset.  The frames differ in that
\* bit and in the checksum byte only.
C26_StatusAndResetFrames ==
    (Assembled /\ cin.cmd.variant = "PTCR20")
        => /\ cin.cmd.name = "get_status"
                 => AssembledBody = << 49, 0, 0, 0, 0, 0, 49 >>
           /\ cin.cmd.name = "fault_reset"
                 => AssembledBody = << 49, 1, 0, 0, 0, 0, 48 >>

\* the fault_reset frame of a PTCR20 whose identity is ETX
C26_Witness ==
    /\ Assembled
    /\ cin.cmd.variant = "PTCR20"
    /\ cin.cmd.identity = 3
    /\ cin.cmd.name = "fault_reset"
    /\ cout.val[1] = << STX, ESC, 131, 49, 1, 0, 0, 0, 0, 48, ETX >>

\* C27: move_absolute (opcode 0x33) and move_delta (opcode 0x34) assemble
\* four data bytes: pan in tenths of a degree as a little-endian int16,
\* then tilt likewise.  An axis left out is encoded as 9999 for
\* move_absolute and as 0 for move_delta, the other axis being encoded as
\* it would be otherwise.
C27_MoveData ==
    (Assembled /\ cin.cmd.name \in {"move_absolute", "move_delta"})
        => LET sentinel == IF cin.cmd.name = "move_absolute" THEN 9999 ELSE 0
               Tenths(a) == IF a = None THEN sentinel ELSE a[1]
               Low(a) == (Tenths(a) + 65536) % 256
               High(a) == ((Tenths(a) + 65536) % 65536) \div 256
               pan_arg == cin.cmd.data[1]
               tilt_arg == cin.cmd.data[2]
           IN  /\ Len(AssembledBody) = 6
               /\ AssembledBody[1] =
                     (IF cin.cmd.name = "move_absolute" THEN 51 ELSE 52)
               /\ SubSeq(AssembledBody, 2, 5) =
                     << Low(pan_arg), High(pan_arg),
                        Low(tilt_arg), High(tilt_arg) >>

\* move_delta with the pan axis left out and tilt -5.0 degrees
C27_Witness ==
    /\ Assembled
    /\ cin.cmd.name = "move_delta"
    /\ cin.cmd.data = << None, Some(-50) >>
    /\ SubSeq(AssembledBody, 1, 5) = << 52, 0, 0, 206, 255 >>

\* a response with the opcode registered for the name it is parsed under
ParsedResponse(names) ==
    /\ cfn = "parse_packet"
    /\ cin.kind = "response"
    /\ cin.cmd.name \in names
    /\ cin.p[1] = number(cin.cmd.name)

\* C28: get_communication_timeout assembles opcode 0x96 with the single
\* data byte 0x80.  The timeout parse routine, for the get and for the set
\* response, returns data byte & 0x7F for every one-byte data field (a value
\* in 0..127, whatever bit 7 is) and fails when there is more than one data
\* byte.
C28_TimeoutQueryAndParse ==
    /\ (Assembled /\ cin.cmd.name = "get_communication_timeout")
          => AssembledBody = << 150, 128, 22 >>
    /\ ParsedResponse({"get_communication_timeout",
                       "set_communication_timeout"})
          => LET d == cin.cmd.data
             IN  /\ Len(d) = 1
                       => /\ cout.err = ""
                          /\ cout.val[1] \in 0..127
                          /\ cout.val[1] = (IF d[1] >= 128 THEN d[1] - 128
                                                           ELSE d[1])
                 /\ Len(d) > 1 => cout.err # ""

\* a set response whose data byte 0x82 has bit 7 set
C28_Witness ==
    /\ ParsedResponse({"set_communication_timeout"})
    /\ cin.cmd.data = << 130 >>
    /\ cout = Return(2)

\* C29: the get_status parse routine maps data bytes d (numbered from 0) to
\* pan = int16 little-endian of d[0..1] and tilt = of d[2..3], in tenths of
\* a degree, pan_status = d[4], tilt_status = d[5], gen_status = d[6],
\* zoom = d[7], focus = d[8], n_cameras = d[9], and camera_data = d[10..]
\* when d has more than 10 bytes, None when it has exactly 10.
C29_StatusFields ==
    (/\ ParsedResponse({"get_status", "fault_reset"})
     /\ cin.cmd.variant = "PTCR20"
     /\ Len(cin.cmd.data) >= 10)
        => LET d == cin.cmd.data
               Int16(lo, hi) == IF hi >= 128 THEN lo + (256 * hi) - 65536
                                             ELSE lo + (256 * hi)
           IN  /\ cout.err = ""
               /\ cout.val[1].pan = Int16(d[1], d[2])
               /\ cout.val[1].tilt = Int16(d[3], d[4])
               /\ cout.val[1].pan_status = d[5]
               /\ cout.val[1].tilt_status = d[6]
               /\ cout.val[1].gen_status = d[7]
               /\ cout.val[1].zoom = d[8]
               /\ cout.val[1].focus = d[9]
               /\ cout.val[1].n_cameras = d[10]
               /\ cout.val[1].camera_data =
                     (IF Len(d) > 10 THEN SubSeq(d, 11, Len(d)) ELSE None)

\* a status with every field different and one byte of camera data
C29_Witness ==
    /\ ParsedResponse({"get_status"})
    /\ cin.cmd.variant = "PTCR20"
    /\ cin.cmd.data = << 15, 39, 206, 255, 8, 16, 96, 5, 6, 1, 9 >>
    /\ cout.err = ""
    /\ cout.val[1].pan = 9999
    /\ cout.val[1].tilt = -50
    /\ cout.val[1].zoom = 5
    /\ cout.val[1].focus = 6
    /\ cout.val[1].camera_data = << 9 >>
    /\ DES(cout.val[1].gen_status)
    /\ EXEC(cout.val[1].gen_status)

\* C30 as stated: for every identity the frame is STX, the identity byte
\* itself, escape(opcode | data | checksum), ETX.
C30_IdentityOutsideEscape ==
    (Assembled /\ cin.cmd.variant = "PTCR20")
        => cout.val[1] =
              << STX, cin.cmd.identity >>
              \o escape_control_chars(
                    _assemble_cmd_data_lrc(cin.cmd.variant, cin.cmd.name,
                                           cin.cmd.data))
              \o << ETX >>

\* C30: for every identity 0..255 of a PTCR20 the frame is STX, the
\* identity, escape(opcode | data | checksum), ETX, where an identity that
\* is not a control character is sent as itself and an identity equal to a
\* control character is sent escaped, as ESC, identity | 0x80: the identity
\* byte is inside the escaped region.
C30_IdentityEscaped ==
    (Assembled /\ cin.cmd.variant = "PTCR20")
        => cout.val[1] =
              << STX >>
              \o (IF cin.cmd.identity \in {2, 3, 6, 21, 27}
                  THEN << 27, cin.cmd.identity + 128 >>
                  ELSE << cin.cmd.identity >>)
              \o escape_control_chars(
                    _assemble_cmd_data_lrc(cin.cmd.variant, cin.cmd.name,
                                           cin.cmd.data))
              \o << ETX >>

\* home on a PTCR20 whose identity is NACK
C30_Witness ==
    /\ Assembled
    /\ cin.cmd.variant = "PTCR20"
    /\ cin.cmd.identity = 21
    /\ cin.cmd.name = "home"
    /\ cout.val[1] = << STX, ESC, 149, 53, 53, ETX >>

\* a read of the acknowledgment wait: the line's deliveries change none of
\* these
C31_Read ==
    /\ pc = "ack_wait"
    /\ << pc, i, noresp, rx >>' # << pc, i, noresp, rx >>

C31_Step ==
    C31_Read =>
       /\ i < 10
       /\ IF rxbuf = << >> \/ (Head(rxbuf).byte # ACK /\ i = 9)
          THEN \* "no response": get_status ends without a frame
               /\ noresp' = noresp + 1
               /\ received' = received
               /\ rx' = None
               /\ pc' = "done"
          ELSE IF Head(rxbuf).byte = ACK
          THEN \* the frame starts at this byte
               /\ pc' = "body"
               /\ rx' = << ACK >>
               /\ noresp' = noresp
          ELSE \* the byte is dropped and the wait goes on
               /\ pc' = "ack_wait"
               /\ i' = i + 1
               /\ rx' = None
               /\ noresp' = noresp

\* the index of the first ACK of a byte stream that holds one
FirstAck(stream) ==
    CHOOSE k \in 1..Len(stream) :
       stream[k] = ACK /\ \A j \in 1..(k - 1) : stream[j] # ACK

\* what _receive has accumulated is the stream from its first ACK on
C31_FromFirstAck ==
    rx # None =>
       /\ \E k \in 1..Len(script) : script[k] = ACK
       /\ FirstAck(script) <= 10
       /\ rx = SubSeq(script, FirstAck(script),
                      FirstAck(script) + Len(rx) - 1)

\* C31: the acknowledgment wait makes at most 10 single-byte reads; it
\* returns "no response" at the first read that yields no byte, and after
\* the 10th read when none of the 10 bytes was ACK; the frame starts at the
\* first ACK among those reads, and the bytes read before it are dropped
\* and never part of the returned frame.
C31_AckWait ==
    /\ []C31_FromFirstAck
    /\ [][C31_Step]_vars

\* the ACK came with the 10th read, after nine other bytes, and the frame
\* returned holds none of them
C31_Witness ==
    /\ pc = "done"
    /\ received = 1
    /\ i = 9
    /\ Len(script) = 12
    /\ rx = << ACK, 49, ETX >>

\* C32: every frame _receive returns has ACK as its first byte, ETX as its
\* last byte and no other ETX (reading stops at the first ETX read after
\* the ACK), so parse_packet never raises the framing fault on it.
C32_ReturnedFrames ==
    received >= 1 =>
       /\ Len(rx) >= 2
       /\ rx[1] = ACK
       /\ rx[Len(rx)] = ETX
       /\ \A k \in 1..(Len(rx) - 1) : rx[k] # ETX
       /\ packet_valid(rx)
       /\ parses = 1
       /\ ~(result.err = "RuntimeError" /\ result.why = "framing")

\* two ETX bytes follow the ACK: the frame returned ends at the first
C32_Witness ==
    /\ pc = "done"
    /\ received = 1
    /\ script = << 0, ACK, ETX, ETX >>
    /\ rx = << ACK, ETX >>

\* C33: every call of _receive returns after finitely many reads when each
\* read delivers one byte or times out, also when the device is silent
\* after its ACK.
C33_ReceiveReturns == (pc \in {"ack_wait", "body"}) ~> (pc = "done")

\* the acknowledgment wait on its own always ends
C33_AckWaitEnds == (pc = "ack_wait") ~> (pc # "ack_wait")

\* C34: in every frame assemble_packet returns, for every command, argument
\* values and identity, STX occurs only as the first byte and ETX only as
\* the last, ACK and NACK occur nowhere, and every ESC is followed by a
\* byte with bit 7 set.
C34_AssembledFrameBytes ==
    Assembled =>
       LET frame == cout.val[1]
       IN  /\ frame[1] = STX
           /\ frame[Len(frame)] = ETX
           /\ \A k \in 1..Len(frame) :
                 /\ frame[k] = STX => k = 1
                 /\ frame[k] = ETX => k = Len(frame)
                 /\ frame[k] \notin {ACK, NACK}
                 /\ frame[k] = ESC => /\ k < Len(frame)
                                      /\ Bit(frame[k + 1], 7) = 1

\* a frame whose identity is ESC and whose data hold control characters
C34_Witness ==
    /\ Assembled
    /\ cin.cmd.identity = ESC
    /\ cout.val[1][2] = ESC
    /\ cout.val[1][3] = ESC + 128
    /\ \E k \in 5..(Len(cout.val[1]) - 2) :
          /\ cout.val[1][k] = ESC
          /\ cout.val[1][k + 1] \in {s + 128 : s \in {STX, ETX, ACK, NACK}}

\* the step ends an operation in an error
C35_EndsInError ==
    /\ pc # "done"
    /\ pc' = "done"
    /\ result'.err # ""

C35_Step ==
    /\ C35_EndsInError => UNCHANGED CoordinateFields
    /\ CoordinateFields' # CoordinateFields => C7_StatusParsed
    /\ pan' # pan => pan' = Some(C7_Parsed.val[1].pan)
    /\ pan_destination' # pan_destination
          => pan_destination' = Some(C7_Parsed.val[1].pan)
    /\ tilt' # tilt => tilt' = Some(C7_Parsed.val[1].tilt)
    /\ tilt_destination' # tilt_destination
          => tilt_destination' = Some(C7_Parsed.val[1].tilt)

\* C35: a step that ends an operation in an error (a fault of parse_packet
\* or a failure on a missing response) leaves pan, tilt, pan_destination
\* and tilt_destination as they were; each of the four is unset until a
\* step gives it the pan or tilt value of a status response that parsed
\* successfully, and no other step changes it.
C35_FieldsSurviveErrors ==
    /\ CoordinateFields = << None, None, None, None >>
    /\ [][C35_Step]_vars

\* a get_status set the fields and the next one ended in a checksum fault
C35_Witness ==
    /\ pc = "done"
    /\ nops = 2
    /\ op.name = "get_status"
    /\ result = Raise("RuntimeError", "checksum")
    /\ pan = Some(Moving.pan)
    /\ tilt = Some(Moving.tilt)

C36_NonWriters ==
    {"fault_reset", "get_communication_timeout", "set_communication_timeout"}

C36_Step ==
    /\ op'.name \in C36_NonWriters => UNCHANGED CoordinateFields
    /\ CoordinateFields' # CoordinateFields
          => op.name \in MoveCommands \cup {"get_status"}

\* C36: fault_reset and the communication_timeout getter and setter leave
\* pan, tilt, pan_destination and tilt_destination unchanged from their
\* call to their end, also when the status response of fault_reset parses
\* successfully; the fields change only during get_status and the moves.
C36_OnlyStatusAndMovesWrite == [][C36_Step]_vars

\* fault_reset parsed the status of a mount at rest, after a get_status
\* that had recorded the destination only
C36_Witness ==
    /\ op.name = "fault_reset"
    /\ pc = "done"
    /\ received = 1
    /\ parse_packet(TheVariant, "fault_reset", rx).err = ""
    /\ parse_packet(TheVariant, "fault_reset", rx).val[1].pan = Arrived.pan
    /\ ~DES(parse_packet(TheVariant, "fault_reset", rx).val[1].gen_status)
    /\ pan_destination = Some(DestEcho.pan)
    /\ pan = None

\* C37: for every byte sequence that starts with ACK and ends with ETX, of
\* any length, parse_packet returns a result or fails with the framing,
\* the checksum or the command-mismatch fault, and in no other way.
C37_OnlyDeclaredFaults ==
    (cfn = "parse_packet" /\ packet_valid(InputFrame(cin)))
       => \/ cout.err = ""
          \/ /\ cout.err = "RuntimeError"
             /\ cout.why \in {"framing", "checksum", "command"}

\* C38: on the identity-carrying variant the outcome of parse_packet (the
\* result or the fault) is the same whatever the identity byte of the
\* frame is, and the identity the protocol object was constructed with
\* plays no part in it: the response of a device with one identity gives
\* the outcome of the same response from a device with any other (an
\* ordinary byte, a control character, ESC, a byte with bit 7 set).  On the
\* wire, a one-byte identity replaced by any byte that is not the ESC
\* marker gives the same outcome too.
C38_IdentityIgnored ==
    (cfn = "parse_packet" /\ cin.cmd.variant = "PTCR20") =>
       /\ cin.kind \in {"response", "corrupted"} =>
             \A id \in IdentitySample :
                cout = parse_packet("PTCR20", cin.cmd.name,
                                    ResponseFrame("PTCR20", id,
                                                  InputPayload(cin)))
       /\ (cin.kind = "raw" /\ Len(cin.p) >= 3 /\ cin.p[2] # ESC) =>
             \A b \in ByteSample \ {ESC} :
                cout = parse_packet("PTCR20", cin.cmd.name,
                                    [cin.p EXCEPT ![2] = b])

\* a status response that carries identity 255 is accepted as the one of
\* the mount with identity 0
C38_Witness ==
    /\ cfn = "parse_packet"
    /\ cin.kind = "response"
    /\ cin.cmd.variant = "PTCR20"
    /\ cin.cmd.name = "get_status"
    /\ cin.cmd.identity = 255
    /\ Identity = 0
    /\ cout.err = ""
    /\ cout = parse_packet("PTCR20", "get_status",
                           ResponseFrame("PTCR20", Identity,
                                         InputPayload(cin)))

=============================================================================
